---- MODULE Spec2Model ----
(***************************************************************************)
(* A model of the ACME client of voidrot/node-acme (src/src/client.ts):    *)
(* the retry policy withRetry, the directory resolver getDirectory, the    *)
(* nonce source getNonce and the account manager createAccount.            *)
(*                                                                         *)
(* The legacy client (src/old/acmeClient.ts) is modelled beside it: its    *)
(* account, order, DNS-01 challenge and finalization calls.                *)
(*                                                                         *)
(* An async function is modelled by its positions: `call` names the        *)
(* running public call, `pc` the await point it is suspended at.           *)
(* Optional values (x?: T, undefined) are sequences of length 0 or 1.      *)
(* Text is a sequence of one-character strings, so that toLowerCase and    *)
(* includes are computed, not assumed.                                     *)
(***************************************************************************)
EXTENDS Integers, Sequences, FiniteSets, TLC

\* ------------------------------------------------------------------ bounds

\* The largest maxRetries a client is constructed with.
MaxRetriesBound == 3

\* The number of public calls made on one client.
MaxCalls == 3

\* The largest maxRetries of a client on which createAccount is called.
MaxAccountRetries == 2

\* ------------------------------------------------------- optional values

Undefined == <<>>
Some(x) == <<x>>
IsDefined(o) == o # <<>>
Get(o) == o[1]

Min(a, b) == IF a <= b THEN a ELSE b

\* -------------------------------------------------------------------- text

LowerOf(c) ==
  CASE c = "N" -> "n"
    [] c = "O" -> "o"
    [] c = "C" -> "c"
    [] c = "E" -> "e"
    [] OTHER -> c

\* String.prototype.toLowerCase
ToLowerCase(text) == [i \in 1..Len(text) |-> LowerOf(text[i])]

\* String.prototype.includes
Includes(text, pat) ==
  \E i \in 1..(Len(text) - Len(pat) + 1) : SubSeq(text, i, i + Len(pat) - 1) = pat

NonceWord == <<"n", "o", "n", "c", "e">>

BodyEmpty == <<>>
BodyMalformed == <<"m", "a", "l", "f", "o", "r", "m", "e", "d">>
BodyBadNonce == <<"b", "a", "d", "N", "o", "n", "c", "e">>
BodyUpperNonce == <<"N", "O", "N", "C", "E">>

\* --------------------------------------------------------- retry config

\* The defaults of the constructor.
DefaultRetryConfig ==
  [initialDelay |-> 1000, maxRetries |-> 5, maxDelay |-> 30000, backoffFactor |-> 2]

RetryFields == {"initialDelay", "maxRetries", "maxDelay", "backoffFactor"}

\* { ...retryConfig, ...defaults }: the spread the wrong way round.
MergeRetryConfig_DefaultsWin(partial) == DefaultRetryConfig

\* { ...defaults, ...retryConfig }: a given field overrides, a missing one keeps
\* its default. `partial` is a function whose domain is the set of fields given.
MergeRetryConfig(partial) ==
  [f \in RetryFields |-> IF f \in DOMAIN partial THEN partial[f] ELSE DefaultRetryConfig[f]]

\* The partial configurations clients are constructed with: maxRetries is always
\* given (it bounds the run), the other three fields are given or left out.
\* With maxDelay 250 the cap is hit (100, 200, 250) and the default
\* initialDelay 1000 exceeds it.
GivenConfigs ==
  { [f \in ({"maxRetries"} \cup S) |->
       CASE f = "maxRetries" -> r
         [] f = "initialDelay" -> 100
         [] f = "maxDelay" -> 250
         [] f = "backoffFactor" -> 3] :
    r \in 0..MaxRetriesBound,
    S \in SUBSET {"initialDelay", "maxDelay", "backoffFactor"} }

\* ------------------------------------------------------------- responses

\* A Response as the retry policy reads it: its status, its body text, and
\* whether text() rejects (the body was already consumed, the stream broke).
Resp(s, b, used) == [status |-> s, body |-> b, textFails |-> used]

\* An error message: its fixed text, and the status and the detail (a body, a
\* profile name) interpolated into it, when any.
Msg(text, status, detail) == [text |-> text, status |-> status, detail |-> detail]

\* An Error: its message, the response attached to it (error.response) and the
\* ordinal of the operation invocation that threw it (its identity; 0 outside
\* an operation).
Err(m, r, n) == [message |-> m, response |-> r, thrownBy |-> n]

\* new Error('Unknown error occurred during retry')
UnknownRetryError ==
  Err(Msg("Unknown error occurred during retry", 0, Undefined), Undefined, 0)

\* The error a mocked operation throws, with the response it attaches.
OperationFailed(r, n) == Err(Msg("Operation failed", 0, Undefined), r, n)

\* ------------------------------------------------------------------ state

VARIABLES
  retryConfig,       \* this.retryConfig
  directory,         \* this.directory (optional)
  directoryProfile,  \* this.directoryProfile (optional)
  accountUrl,        \* this.accountUrl (optional)
  privateKey,        \* this.privateKey (optional)
  call,              \* the running call: "idle", "withRetry", "init", ...
  pc,                \* the position of the running call
  arg,               \* the argument of the running call
  attempt,           \* withRetry: the loop counter
  delay,             \* withRetry: the current delay
  lastError,         \* withRetry: lastError (optional)
  keyPair,           \* createAccount: { publicKey, privateKey } (optional)
  nonce,             \* createAccount: what getNonce() last returned (optional)
  result,            \* the settled promise of the last call
  calls,             \* the number of public calls made on the client
  initCalled,        \* whether init() was ever called
  opLog,             \* this call: the outcome of each invocation of the operation
  sleeps,            \* this call: the delay passed to each wait(), in order
  nonceReqs,         \* this call: the newNonce requests, in order
  posts,             \* this call: the signed POSTs and what they met, in order
  dirFetches,        \* the number of requests to directoryUrl, over all calls
  dirStores,         \* the number of assignments to this.directory, over all calls
  lastDirFetch,      \* the last request to directoryUrl and what it met (optional)
  dnsProvider,       \* legacy client: this.dnsProvider (optional)
  authzIndex,        \* completeDns01Challenges: the position of the for...of loop
  authz,             \* completeDns01Challenges: the fetched authorization (optional)
  completedAuthz,    \* completeDns01Challenges: completedAuthz
  finalizedOrder,    \* finalizeOrder: finalizedOrder (optional)
  attempts,          \* finalizeOrder: attempts
  authzFetches,      \* this call: the authorizations requested and what they met
  dnsCalls,          \* this call: the calls of dnsProvider.setRecord, in order
  pollSleeps,        \* this call: the number of poll sleeps made
  pollFetches,       \* this call: the number of poll requests made
  certFetches,       \* this call: the certificate URLs requested, in order
  statusesSeen,      \* this call: the order statuses the CA has reported
  keyAuthorizations, \* the key authorizations computed, over all calls
  given,             \* what the constructor was given as retryConfig
  clients,           \* two clients side by side: the fields and the call of each
  traffic,           \* two clients side by side: the requests made, and for whom
  tasks              \* one client, concurrent calls: the locals of each call, in
                     \* the order the calls were made

fields == <<directory, directoryProfile, accountUrl, privateKey>>
retryLocals == <<attempt, delay, lastError>>
accountLocals == <<keyPair, nonce>>
retryLogs == <<opLog, sleeps>>
requestLogs == <<nonceReqs, posts>>
directoryLogs == <<dirFetches, dirStores, lastDirFetch>>
challengeLocals == <<authzIndex, authz, completedAuthz>>
finalizeLocals == <<finalizedOrder, attempts>>
legacyLogs == <<authzFetches, dnsCalls, pollSleeps, pollFetches, certFetches, statusesSeen,
                keyAuthorizations>>
legacy == <<dnsProvider, challengeLocals, finalizeLocals, legacyLogs>>

\* What no step of a client on its own touches: what it was constructed with,
\* the two clients that are run side by side, and the calls that are run
\* concurrently on one client.
sideBySide == <<clients, traffic, tasks>>
constructed == <<retryConfig, given, sideBySide>>

\* One client on its own.
single ==
  <<retryConfig, given, fields, call, pc, arg, retryLocals, accountLocals, result, calls,
    initCalled, retryLogs, requestLogs, directoryLogs, legacy>>

vars == <<single, sideBySide>>

Pending == [kind |-> "pending"]
Fulfilled(v) == [kind |-> "fulfilled", value |-> v]
Rejected(e) == [kind |-> "rejected", error |-> e]

\* ------------------------------------------------------------ retry policy

\* A boolean, or the Promise an async function returns.
JsBool(b) == [type |-> "boolean", value |-> b]
JsPromise(b) == [type |-> "promise", value |-> b]

\* ToBoolean: an object (a Promise) is truthy whatever it resolves to.
JsTruthy(v) == IF v.type = "boolean" THEN v.value ELSE TRUE

\* private async canRetry(response?): what the call evaluates to, unawaited.
CanRetry(response) ==
  JsPromise(
    IF ~IsDefined(response) THEN TRUE
    ELSE Get(response).status >= 500 \/ Get(response).status = 400
           \/ Get(response).status = 429)

\* await response.text().catch(() => '')
ResponseText(r) == IF r.textFails THEN <<>> ELSE r.body

\* errorText.toLowerCase().includes('nonce'), negated, inverted by mistake
NotNonceError_Inverted(errorText) == Includes(ToLowerCase(errorText), NonceWord)

\* !errorText.toLowerCase().includes('nonce')
NotNonceError(errorText) == ~Includes(ToLowerCase(errorText), NonceWord)

\* Math.min(delay * backoffFactor, maxDelay)
NextDelay(d) == Min(d * retryConfig.backoffFactor, retryConfig.maxDelay)

\* The operation of createAccount with the nonce cached: a nonce is fetched
\* only when none is held, and a re-attempt signs with the one it holds.
OperationEntry_NonceCached(c) ==
  IF c = "createAccount" THEN (IF IsDefined(nonce) THEN "post" ELSE "getNonce") ELSE "op"

\* The first position of the operation passed to withRetry: the closure of
\* createAccount begins with getNonce(), a caller's own operation is one step.
OperationEntry(c) == IF c = "createAccount" THEN "getNonce" ELSE "op"

\* let delay = this.retryConfig.initialDelay
InitialDelay == retryConfig.initialDelay

\* withRetry entered: lastError undefined, delay = initialDelay, attempt = 0.
WithRetryEnter ==
  /\ pc = "enter"
  /\ pc' = "loop"
  /\ attempt' = 0
  /\ delay' = InitialDelay
  /\ lastError' = Undefined
  /\ UNCHANGED <<legacy, constructed, fields, call, arg, accountLocals, result, calls,
                 initCalled, retryLogs, requestLogs, directoryLogs>>

\* for (...; attempt < maxRetries; ...): run the operation, or leave the loop
\* and throw lastError || new Error('Unknown error ...').
WithRetryLoop ==
  /\ pc = "loop"
  /\ IF attempt < retryConfig.maxRetries
       THEN /\ pc' = OperationEntry(call)
            /\ result' = result
       ELSE /\ pc' = "done"
            /\ result' = Rejected(IF IsDefined(lastError) THEN Get(lastError)
                                  ELSE UnknownRetryError)
  /\ UNCHANGED <<legacy, constructed, fields, call, arg, retryLocals, accountLocals, calls,
                 initCalled, retryLogs, requestLogs, directoryLogs>>

\* catch (error): rethrow, or go on to wait.
WithRetryCatch ==
  /\ pc = "catch"
  /\ LET error == Get(lastError)
         response == error.response
         rethrow ==
           \/ attempt = retryConfig.maxRetries
           \/ ~JsTruthy(CanRetry(response))
           \/ /\ IsDefined(response)
              /\ Get(response).status = 400
              /\ NotNonceError(ResponseText(Get(response)))
     IN IF rethrow
          THEN pc' = "done" /\ result' = Rejected(error)
          ELSE pc' = "wait" /\ result' = result
  /\ UNCHANGED <<legacy, constructed, fields, call, arg, retryLocals, accountLocals, calls,
                 initCalled, retryLogs, requestLogs, directoryLogs>>

\* await this.wait(delay); delay = Math.min(...); attempt++
WithRetryWait ==
  /\ pc = "wait"
  /\ sleeps' = Append(sleeps, delay)
  /\ delay' = NextDelay(delay)
  /\ attempt' = attempt + 1
  /\ pc' = "loop"
  /\ UNCHANGED <<legacy, constructed, fields, call, arg, lastError, accountLocals, result,
                 calls, initCalled, opLog, requestLogs, directoryLogs>>

\* A call begins: its locals are fresh and its logs are empty.
Begin(c, a) ==
  /\ call = "idle"
  /\ call' = c
  /\ arg' = a
  /\ attempt' = 0
  /\ delay' = 0
  /\ lastError' = Undefined
  /\ keyPair' = Undefined
  /\ nonce' = Undefined
  /\ opLog' = <<>>
  /\ sleeps' = <<>>
  /\ nonceReqs' = <<>>
  /\ posts' = <<>>
  /\ lastDirFetch' = Undefined

\* The caller has taken the settled result: the call, its locals and its logs
\* are gone, and the client is idle again.
Return ==
  /\ pc = "done"
  /\ call # "idle"
  /\ call' = "idle"
  /\ pc' = "idle"
  /\ arg' = Undefined
  /\ result' = Pending
  /\ attempt' = 0
  /\ delay' = 0
  /\ lastError' = Undefined
  /\ keyPair' = Undefined
  /\ nonce' = Undefined
  /\ opLog' = <<>>
  /\ sleeps' = <<>>
  /\ nonceReqs' = <<>>
  /\ posts' = <<>>
  /\ lastDirFetch' = Undefined
  /\ UNCHANGED <<legacy, constructed, fields, calls, initCalled, dirFetches, dirStores>>

\* ------------------------------------------- an operation under withRetry

\* What one invocation of the operation does: it returns 'success', or throws
\* an error with no response (a network failure) or with a response attached.
OpOutcomes ==
  {[ok |-> TRUE, response |-> Undefined], [ok |-> FALSE, response |-> Undefined]}
  \cup {[ok |-> FALSE, response |-> Some(Resp(s, BodyEmpty, FALSE))] :
          s \in {401, 404, 429, 500, 503}}
  \cup {[ok |-> FALSE, response |-> Some(Resp(400, b, FALSE))] :
          b \in {BodyEmpty, BodyMalformed, BodyBadNonce, BodyUpperNonce}}
  \cup {[ok |-> FALSE, response |-> Some(Resp(400, BodyBadNonce, TRUE))]}

\* client.withRetry(operation, 'test')
RetryCall ==
  /\ Begin("withRetry", Undefined)
  /\ result' = Pending
  /\ pc' = "enter"
  /\ UNCHANGED <<legacy, constructed, fields, calls, initCalled, dirFetches, dirStores>>

\* return await operation(), for the operation of the caller of withRetry
Operation ==
  /\ call = "withRetry"
  /\ pc = "op"
  /\ \E o \in OpOutcomes :
       /\ opLog' = Append(opLog, o)
       /\ IF o.ok
            THEN /\ pc' = "done"
                 /\ result' = Fulfilled("success")
                 /\ lastError' = lastError
            ELSE /\ pc' = "catch"
                 /\ result' = result
                 /\ lastError' = Some(OperationFailed(o.response, Len(opLog) + 1))
  /\ UNCHANGED <<legacy, constructed, fields, call, arg, attempt, delay, accountLocals, calls,
                 initCalled, sleeps, requestLogs, directoryLogs>>

\* ------------------------------------------------------ directory resolver

\* if (!x): undefined and the empty string are falsy.
StrTruthy(o) == IsDefined(o) /\ Get(o) # ""

\* Response.ok
Ok(status) == status \in 200..299

EndpointNames == {"newNonce", "newAccount", "newOrder", "revokeCert", "keyChange"}

\* Two meta blocks a CA may send: {} and one with terms, CAA identities and
\* profiles (an object whose keys are the profile names).
MetaEmpty ==
  [termsOfService |-> Undefined, website |-> Undefined, caaIdentities |-> Undefined,
   externalAccountRequired |-> Undefined, profiles |-> Undefined]
MetaProfiles ==
  [termsOfService |-> Some("https://cb/tos"), website |-> Undefined,
   caaIdentities |-> Some(<<"cb.example">>), externalAccountRequired |-> Some(TRUE),
   profiles |-> Some(<<[name |-> "classic", about |-> "90 days"],
                       [name |-> "shortlived", about |-> "6 days"]>>)]

\* Two complete directory bodies, of two CAs.
DirectoryA ==
  [newNonce |-> Some("https://ca/nonce"), newAccount |-> Some("https://ca/acct"),
   newOrder |-> Some("https://ca/order"), revokeCert |-> Some("https://ca/revoke"),
   keyChange |-> Some("https://ca/keychange"), meta |-> Some(MetaEmpty)]
DirectoryB ==
  [newNonce |-> Some("https://cb/nonce"), newAccount |-> Some("https://cb/acct"),
   newOrder |-> Some("https://cb/order"), revokeCert |-> Some("https://cb/revoke"),
   keyChange |-> Some("https://cb/keychange"), meta |-> Some(MetaProfiles)]

\* The bodies the directory URL answers with: the complete ones, and each with
\* one of its six members missing or (an endpoint) empty.
DirectoryBodies ==
  {DirectoryA, DirectoryB}
  \cup {[d EXCEPT ![f] = v] :
          d \in {DirectoryA, DirectoryB}, f \in EndpointNames, v \in {Undefined, Some("")}}
  \cup {[d EXCEPT !.meta = Undefined] : d \in {DirectoryA, DirectoryB}}

\* What fetch(directoryUrl) meets: a network failure (fetch rejects), a
\* non-success status, or a success status with one of the bodies.
DirectoryFetches ==
  {Undefined, Some([status |-> 500, data |-> DirectoryA])}
  \cup {Some([status |-> 200, data |-> d]) : d \in DirectoryBodies}

\* The validation of getDirectory with the keyChange test forgotten.
DirectoryIncomplete_NoKeyChange(data) ==
  \/ ~StrTruthy(data.newNonce)
  \/ ~StrTruthy(data.newAccount)
  \/ ~StrTruthy(data.newOrder)
  \/ ~StrTruthy(data.revokeCert)
  \/ ~IsDefined(data.meta)

\* !data['newNonce'] || ... || !data['keyChange'] || !data['meta']
DirectoryIncomplete(data) ==
  \/ ~StrTruthy(data.newNonce)
  \/ ~StrTruthy(data.newAccount)
  \/ ~StrTruthy(data.newOrder)
  \/ ~StrTruthy(data.revokeCert)
  \/ ~StrTruthy(data.keyChange)
  \/ ~IsDefined(data.meta)

\* Object.keys(data.meta.profiles)
ObjectKeys(o) == [i \in 1..Len(o) |-> o[i].name]

\* The object assigned to this.directory.
StoredDirectory(data) ==
  LET meta == Get(data.meta)
  IN [newNonce |-> data.newNonce,
      newAccount |-> data.newAccount,
      newOrder |-> data.newOrder,
      revokeCert |-> data.revokeCert,
      keyChange |-> data.keyChange,
      meta |-> [termsOfService |-> meta.termsOfService,
                website |-> meta.website,
                caaIdentities |-> IF IsDefined(meta.caaIdentities)
                                    THEN Get(meta.caaIdentities) ELSE <<>>,
                externalAccountRequired |-> IsDefined(meta.externalAccountRequired)
                                              /\ Get(meta.externalAccountRequired),
                profiles |-> IF IsDefined(meta.profiles)
                               THEN Some(ObjectKeys(Get(meta.profiles)))
                               ELSE Undefined]]

NetworkError(n) == Err(Msg("fetch failed", 0, Undefined), Undefined, n)
DirectoryFetchFailed(status) ==
  Err(Msg("Failed to fetch ACME directory", status, Undefined), Undefined, 0)
IncompleteDirectory ==
  Err(Msg("Incomplete ACME directory response", 0, Undefined), Undefined, 0)

\* GetDirectoryError with the test of response.ok forgotten.
GetDirectoryError_NoStatusTest(f) ==
  IF ~IsDefined(f) THEN Some(NetworkError(0))
  ELSE IF DirectoryIncomplete(Get(f).data) THEN Some(IncompleteDirectory)
  ELSE Undefined

\* What getDirectory throws on the fetch outcome f, if anything.
GetDirectoryError(f) ==
  IF ~IsDefined(f) THEN Some(NetworkError(0))
  ELSE IF ~Ok(Get(f).status) THEN Some(DirectoryFetchFailed(Get(f).status))
  ELSE IF DirectoryIncomplete(Get(f).data) THEN Some(IncompleteDirectory)
  ELSE Undefined

\* The lazy test with its condition lost: the directory is fetched every time.
NeedsDirectory_Always(d) == TRUE

\* if (!this.directory)
NeedsDirectory(d) == ~IsDefined(d)

\* Where a call goes on once getDirectory has returned.
AfterDirectory(c) ==
  CASE c = "init" -> "done"
    [] c = "createAccount" -> "generateKeyPair"
    [] OTHER -> "body"

\* private async getDirectory(), from the fetch to the assignment
GetDirectory ==
  /\ pc = "getDirectory"
  /\ \E f \in DirectoryFetches :
       LET error == GetDirectoryError(f)
       IN /\ dirFetches' = dirFetches + 1
          /\ lastDirFetch' = Some([response |-> f, before |-> directory, byCall |-> calls])
          /\ IF IsDefined(error)
               THEN /\ directory' = directory
                    /\ dirStores' = dirStores
                    /\ pc' = "done"
                    /\ result' = Rejected(Get(error))
               ELSE /\ directory' = Some(StoredDirectory(Get(f).data))
                    /\ dirStores' = dirStores + 1
                    /\ pc' = AfterDirectory(call)
                    /\ result' = IF call = "init" THEN Fulfilled("undefined") ELSE result
  /\ UNCHANGED <<legacy, constructed, directoryProfile, accountUrl, privateKey, call, arg,
                 retryLocals, accountLocals, calls, initCalled, retryLogs, requestLogs>>

\* async init()
InitCall ==
  /\ calls < MaxCalls
  /\ Begin("init", Undefined)
  /\ result' = Pending
  /\ pc' = "getDirectory"
  /\ calls' = calls + 1
  /\ initCalled' = TRUE
  /\ UNCHANGED <<legacy, constructed, fields, dirFetches, dirStores>>

\* ------------------------------------------------------------- profiles

ProfileNames == {"classic", "tlsserver"}

NoProfiles == Err(Msg("No profiles available in ACME directory", 0, Undefined), Undefined, 0)
ProfileNotFound(p) ==
  Err(Msg("Profile not found in ACME directory", 0, Some(<<p>>)), Undefined, 0)

\* Array.prototype.includes
ArrayIncludes(a, x) == \E i \in 1..Len(a) : a[i] = x

\* async showProfiles(), to its first await
ShowProfilesCall ==
  /\ calls < MaxCalls
  /\ Begin("showProfiles", Undefined)
  /\ result' = Pending
  /\ pc' = IF NeedsDirectory(directory) THEN "getDirectory" ELSE "body"
  /\ calls' = calls + 1
  /\ UNCHANGED <<legacy, constructed, fields, initCalled, dirFetches, dirStores>>

\* showProfiles(), after the directory is there
ShowProfilesBody ==
  /\ call = "showProfiles"
  /\ pc = "body"
  /\ LET profiles == Get(directory).meta.profiles
     IN result' = IF ~IsDefined(profiles) THEN Rejected(NoProfiles)
                  ELSE Fulfilled(Get(profiles))
  /\ pc' = "done"
  /\ UNCHANGED <<legacy, constructed, fields, call, arg, retryLocals, accountLocals, calls,
                 initCalled, retryLogs, requestLogs, directoryLogs>>

\* async setProfile(profile), to its first await
SetProfileCall ==
  /\ calls < MaxCalls
  /\ \E p \in ProfileNames : Begin("setProfile", Some(p))
  /\ result' = Pending
  /\ pc' = IF NeedsDirectory(directory) THEN "getDirectory" ELSE "body"
  /\ calls' = calls + 1
  /\ UNCHANGED <<legacy, constructed, fields, initCalled, dirFetches, dirStores>>

\* setProfile(profile), after the directory is there
SetProfileBody ==
  /\ call = "setProfile"
  /\ pc = "body"
  /\ LET profiles == Get(directory).meta.profiles
         missing == ~IsDefined(profiles) \/ ~ArrayIncludes(Get(profiles), Get(arg))
     IN /\ result' = IF missing THEN Rejected(ProfileNotFound(Get(arg)))
                     ELSE Fulfilled("undefined")
        /\ directoryProfile' = IF missing THEN directoryProfile ELSE arg
  /\ pc' = "done"
  /\ UNCHANGED <<legacy, constructed, directory, accountUrl, privateKey, call, arg, retryLocals,
                 accountLocals, calls, initCalled, retryLogs, requestLogs, directoryLogs>>

\* ------------------------------------------------------------ nonce source

\* A response to the HEAD request: its status and its headers, a function from
\* the header names as sent to their values.
NonceResp(s, headers) == [status |-> s, headers |-> headers]

NoHeaders == [h \in {} |-> ""]
Header(name, v) == [h \in {name} |-> v]

\* headers.get(name): the value, or null
HeadersGet(headers, name) ==
  IF name \in DOMAIN headers THEN Some(headers[name]) ELSE Undefined

\* nonceRes.headers.get('Replay-Nonce') || nonceRes.headers.get('replay-nonce')
ReplayNonce(r) ==
  IF StrTruthy(HeadersGet(r.headers, "Replay-Nonce"))
    THEN HeadersGet(r.headers, "Replay-Nonce")
    ELSE HeadersGet(r.headers, "replay-nonce")

\* What the HEAD request to newNonce meets: a network failure, or a response
\* without the header, with an empty one, or with a nonce under either
\* spelling of the name, one of them on a response that is not ok.
NonceFetches ==
  {Undefined,
   Some(NonceResp(200, NoHeaders)),
   Some(NonceResp(200, Header("Replay-Nonce", ""))),
   Some(NonceResp(500, Header("Replay-Nonce", "n1"))),
   Some(NonceResp(200, Header("replay-nonce", "n2")))}

NonceUnavailable(n) == Err(Msg("Failed to get ACME nonce", 0, Undefined), Undefined, n)

\* getNonce with a test of the status: a response that is not ok has no nonce.
GetNonceError_StatusTest(f, n) ==
  IF ~IsDefined(f) THEN Some(NetworkError(n))
  ELSE IF ~Ok(Get(f).status) \/ ~StrTruthy(ReplayNonce(Get(f)))
    THEN Some(NonceUnavailable(n))
  ELSE Undefined

\* What getNonce throws on the fetch outcome f, if anything.
GetNonceError(f, n) ==
  IF ~IsDefined(f) THEN Some(NetworkError(n))
  ELSE IF ~StrTruthy(ReplayNonce(Get(f))) THEN Some(NonceUnavailable(n))
  ELSE Undefined

\* --------------------------------------------------------- account manager

Emails == {"a@b.com"}

\* generateKeyPair('ES256'): the k-th pair generated.
KeyPair(k) == [publicKey |-> [pub |-> k], privateKey |-> [priv |-> k]]

\* exportJWK(publicKey), key_ops and ext deleted
ExportJWK(publicKey) == [kty |-> "EC", crv |-> "P-256", pub |-> publicKey.pub]

\* A response to the newAccount POST: Resp with its Location header.
AccountResp(s, b, fails, location) ==
  [status |-> s, body |-> b, textFails |-> fails, location |-> location]

\* What the POST to newAccount meets. A Location header, when sent, holds a URL.
\* The body of the 401 cannot be read (text() rejects).
AccountFetches ==
  {Undefined}
  \cup {Some(AccountResp(201, BodyEmpty, FALSE, l)) :
          l \in {Undefined, Some("https://ca/acct/1"), Some("https://ca/acct/2")}}
  \cup {Some(AccountResp(400, BodyBadNonce, FALSE, Undefined)),
        Some(AccountResp(401, BodyMalformed, TRUE, Undefined)),
        Some(AccountResp(500, BodyEmpty, FALSE, Undefined))}

\* try { await res.text() } catch { '(No response body)' }
ReadBody(r) == IF r.textFails THEN Undefined ELSE Some(r.body)

AccountCreationFailed(r, n) ==
  Err(Msg("Failed to create ACME account", r.status, ReadBody(r)), Undefined, n)
MissingAccountUrl(r, n) ==
  Err(Msg("No account URL returned by ACME server.", 0, ReadBody(r)), Undefined, n)

\* PostError with the test of res.ok forgotten.
PostError_NoStatusTest(f, n) ==
  IF ~IsDefined(f) THEN Some(NetworkError(n))
  ELSE IF ~StrTruthy(Get(f).location) THEN Some(MissingAccountUrl(Get(f), n))
  ELSE Undefined

\* What the operation of createAccount throws on the POST outcome f, if anything.
PostError(f, n) ==
  IF ~IsDefined(f) THEN Some(NetworkError(n))
  ELSE IF ~Ok(Get(f).status) THEN Some(AccountCreationFailed(Get(f), n))
  ELSE IF ~StrTruthy(Get(f).location) THEN Some(MissingAccountUrl(Get(f), n))
  ELSE Undefined

\* The protected header of the account-creation request.
ProtectedHeader(n, url, jwk) == [alg |-> "ES256", nonce |-> n, url |-> url, jwk |-> jwk]

\* The key createAccount signs with and stores: the private key of the pair.
SigningKey(pair) == pair.privateKey

\* async setAccount(accountUrl, privateKey): no await in it
SetAccountCall ==
  /\ calls < MaxCalls
  /\ \E u \in {"https://ca/acct/7"}, k \in {[priv |-> 0]} :
       /\ Begin("setAccount", Some([accountUrl |-> u, privateKey |-> k]))
       /\ accountUrl' = Some(u)
       /\ privateKey' = Some(k)
  /\ result' = Fulfilled("undefined")
  /\ pc' = "done"
  /\ calls' = calls + 1
  /\ UNCHANGED <<legacy, constructed, directory, directoryProfile, initCalled, dirFetches,
                 dirStores>>

\* async createAccount(email), to its first await
CreateAccountCall ==
  /\ calls < MaxCalls
  /\ \E e \in Emails : Begin("createAccount", Some(e))
  /\ result' = Pending
  /\ pc' = IF NeedsDirectory(directory) THEN "getDirectory" ELSE "generateKeyPair"
  /\ calls' = calls + 1
  /\ UNCHANGED <<legacy, constructed, fields, initCalled, dirFetches, dirStores>>

\* createAccount: the key pair, the jwk, the payload; then withRetry is entered
GenerateKeyPair ==
  /\ call = "createAccount"
  /\ pc = "generateKeyPair"
  /\ keyPair' = Some(KeyPair(calls))
  /\ pc' = "enter"
  /\ UNCHANGED <<legacy, constructed, fields, call, arg, retryLocals, nonce, result, calls,
                 initCalled, retryLogs, requestLogs, directoryLogs>>

\* the operation of createAccount: nonce: await this.getNonce()
GetNonce ==
  /\ call = "createAccount"
  /\ pc = "getNonce"
  /\ \E f \in NonceFetches :
       LET error == GetNonceError(f, attempt + 1)
           id == [call |-> calls, request |-> Len(nonceReqs) + 1]
       IN /\ nonceReqs' = Append(nonceReqs,
                                 [id |-> id, attempt |-> attempt,
                                  url |-> Get(directory).newNonce,
                                  status |-> IF IsDefined(f) THEN Get(f).status ELSE 0,
                                  headers |-> IF IsDefined(f) THEN Get(f).headers
                                              ELSE NoHeaders,
                                  value |-> IF IsDefined(f) THEN ReplayNonce(Get(f))
                                            ELSE Undefined])
          /\ IF IsDefined(error)
               THEN /\ lastError' = error
                    /\ opLog' = Append(opLog, [ok |-> FALSE, response |-> Undefined])
                    /\ nonce' = nonce
                    /\ pc' = "catch"
               ELSE /\ lastError' = lastError
                    /\ opLog' = opLog
                    /\ nonce' = Some([id |-> id, value |-> Get(ReplayNonce(Get(f)))])
                    /\ pc' = "post"
  /\ UNCHANGED <<legacy, constructed, fields, call, arg, attempt, delay, keyPair, result,
                 calls, initCalled, sleeps, posts, directoryLogs>>

\* The key stored before the response is looked at.
AccountAfterThrow_KeyStored(pair) ==
  [accountUrl |-> accountUrl, privateKey |-> Some(pair.privateKey)]

\* The operation throws at line 206 or 219, before the assignments of lines
\* 222-223 are reached: the account of the instance is what it was.
AccountAfterThrow(pair) == [accountUrl |-> accountUrl, privateKey |-> privateKey]

\* the operation of createAccount: sign, POST to newAccount, unwrap the response
Post ==
  /\ call = "createAccount"
  /\ pc = "post"
  /\ \E f \in AccountFetches :
       LET error == PostError(f, attempt + 1)
           pair == Get(keyPair)
           url == Get(directory).newAccount
       IN /\ posts' = Append(posts,
                             [attempt |-> attempt,
                              url |-> url,
                              protected |-> ProtectedHeader(Get(nonce).value, url,
                                                            ExportJWK(pair.publicKey)),
                              nonceId |-> Get(nonce).id,
                              payload |-> [termsOfServiceAgreed |-> TRUE, contact |-> Get(arg)],
                              signedBy |-> SigningKey(pair),
                              response |-> f])
          /\ opLog' = Append(opLog, [ok |-> ~IsDefined(error), response |-> Undefined])
          /\ IF IsDefined(error)
               THEN /\ lastError' = error
                    /\ pc' = "catch"
                    /\ accountUrl' = AccountAfterThrow(pair).accountUrl
                    /\ privateKey' = AccountAfterThrow(pair).privateKey
                    /\ UNCHANGED result
               ELSE /\ lastError' = lastError
                    /\ pc' = "done"
                    /\ accountUrl' = Get(f).location
                    /\ privateKey' = Some(SigningKey(pair))
                    /\ result' = Fulfilled([accountUrl |-> Get(Get(f).location),
                                            privateKey |-> SigningKey(pair)])
  /\ UNCHANGED <<legacy, constructed, directory, directoryProfile, call, arg, attempt, delay,
                 keyPair, nonce, calls, initCalled, sleeps, nonceReqs, directoryLogs>>

\* ----------------------------------------------------------- createOrder

\* new Error('createOrder not implemented yet')
CreateOrderNotImplemented ==
  Err(Msg("createOrder not implemented yet", 0, Undefined), Undefined, 0)

\* async createOrder(): it throws before any request, outside withRetry
CreateOrderCall ==
  /\ calls < MaxCalls
  /\ Begin("createOrder", Undefined)
  /\ result' = Rejected(CreateOrderNotImplemented)
  /\ pc' = "done"
  /\ calls' = calls + 1
  /\ UNCHANGED <<legacy, constructed, fields, initCalled, dirFetches, dirStores>>

\* ===================================================== the legacy client
\* src/old/acmeClient.ts: a client without a retry policy, whose calls fetch
\* their nonce inline.

\* The largest number of public calls made on one legacy client.
MaxLegacyCalls == 2

\* What the legacy client leaves alone in every step.
notLegacy == <<constructed, directoryProfile, initCalled, retryLocals, retryLogs>>

\* The locals and the logs of a legacy call, before it has done anything.
FreshLegacyCall ==
  /\ authzIndex' = 0
  /\ authz' = Undefined
  /\ completedAuthz' = <<>>
  /\ finalizedOrder' = Undefined
  /\ attempts' = 0
  /\ authzFetches' = <<>>
  /\ dnsCalls' = <<>>
  /\ pollSleeps' = 0
  /\ pollFetches' = 0
  /\ certFetches' = <<>>
  /\ statusesSeen' = {}

\* A call of the legacy client begins: its locals are fresh, its logs empty.
BeginLegacy(c, a) ==
  /\ calls < MaxLegacyCalls
  /\ Begin(c, a)
  /\ calls' = calls + 1
  /\ FreshLegacyCall
  /\ UNCHANGED <<constructed, directoryProfile, initCalled, dirFetches, dirStores,
                 keyAuthorizations>>

\* The caller has taken the settled result: the call, its locals and its logs
\* are gone, and the client is idle again.
LegacyReturn ==
  /\ pc = "done"
  /\ call # "idle"
  /\ call' = "idle"
  /\ pc' = "idle"
  /\ arg' = Undefined
  /\ result' = Pending
  /\ keyPair' = Undefined
  /\ nonce' = Undefined
  /\ nonceReqs' = <<>>
  /\ posts' = <<>>
  /\ lastDirFetch' = Undefined
  /\ FreshLegacyCall
  /\ UNCHANGED <<notLegacy, fields, calls, dirFetches, dirStores, dnsProvider,
                 keyAuthorizations>>

\* A step inside a legacy call: the call and what it was given stay.
InLegacy(c, at) ==
  /\ call = c
  /\ pc = at
  /\ UNCHANGED <<notLegacy, call, arg, calls>>

\* The call rejects with the error e.
Throw(e) == pc' = "done" /\ result' = Rejected(e)

AccountNotSet ==
  Err(Msg("Account state not set. Call createAccount or restoreAccount first.",
          0, Undefined), Undefined, 0)
AccountNotSetInner == Err(Msg("Account state not set.", 0, Undefined), Undefined, 0)
DnsProviderNotSet ==
  Err(Msg("DNS provider not set. Call setDnsProvider first.", 0, Undefined),
      Undefined, 0)

\* !this.accountUrl || !this.privateKey
AccountMissing == ~StrTruthy(accountUrl) \/ ~IsDefined(privateKey)

\* ------------------------------------------------- legacy: the directory

\* What the directory URL answers the legacy client with: a complete body and
\* one without keyChange (the legacy client does not read meta).
LegacyDirectoryFetches ==
  {Undefined,
   Some([status |-> 500, data |-> DirectoryA]),
   Some([status |-> 200, data |-> DirectoryA]),
   Some([status |-> 200, data |-> [DirectoryA EXCEPT !.keyChange = Undefined]])}

\* !data['newNonce'] || ... || !data['keyChange']
LegacyDirectoryIncomplete(data) == \E f \in EndpointNames : ~StrTruthy(data[f])

LegacyDirectoryFetchFailed ==
  Err(Msg("Failed to fetch ACME directory", 0, Undefined), Undefined, 0)

\* What the legacy getDirectory throws on the fetch outcome f, if anything.
LegacyGetDirectoryError(f) ==
  IF ~IsDefined(f) THEN Some(NetworkError(0))
  ELSE IF ~Ok(Get(f).status) THEN Some(LegacyDirectoryFetchFailed)
  ELSE IF LegacyDirectoryIncomplete(Get(f).data) THEN Some(IncompleteDirectory)
  ELSE Undefined

\* The object the legacy getDirectory assigns to this.directory.
LegacyStoredDirectory(data) == [f \in EndpointNames |-> data[f]]

\* Where a legacy call goes on once getDirectory has returned.
LegacyAfterDirectory(c) ==
  CASE c = "getDirectory" -> "done"
    [] c = "orderCertificate" -> "checkAccount"
    [] OTHER -> "nonce"

\* async getDirectory(), called by the user
LegacyGetDirectoryCall ==
  /\ BeginLegacy("getDirectory", Undefined)
  /\ result' = Pending
  /\ pc' = "getDirectory"
  /\ UNCHANGED <<fields, dnsProvider>>

\* async getDirectory(), from the fetch to the return
LegacyGetDirectory ==
  /\ InLegacy(call, "getDirectory")
  /\ call \in {"getDirectory", "createAccount", "orderCertificate",
               "completeDns01Challenges", "finalizeOrder"}
  /\ \E f \in LegacyDirectoryFetches :
       LET error == LegacyGetDirectoryError(f)
       IN /\ lastDirFetch' = Some([response |-> f, before |-> directory, byCall |-> calls])
          /\ IF IsDefined(error)
               THEN /\ directory' = directory
                    /\ Throw(Get(error))
               ELSE /\ directory' = Some(LegacyStoredDirectory(Get(f).data))
                    /\ pc' = LegacyAfterDirectory(call)
                    /\ result' = IF call = "getDirectory"
                                   THEN Fulfilled(LegacyStoredDirectory(Get(f).data))
                                   ELSE result
  /\ UNCHANGED <<directoryProfile, accountUrl, privateKey, accountLocals, requestLogs,
                 dirFetches, dirStores, legacy>>

\* --------------------------------------- legacy: account and DNS provider

\* The accounts a user restores: two accounts, and an empty account URL.
RestoredAccounts ==
  {[accountUrl |-> "https://ca/acct/7", privateKey |-> [priv |-> 7]],
   [accountUrl |-> "https://ca/acct/8", privateKey |-> [priv |-> 8]],
   [accountUrl |-> "", privateKey |-> [priv |-> 7]]}

\* restoreAccount that assigns the URL and leaves the key as it was.
RestoreAccount_UrlOnly ==
  /\ call = "idle"
  /\ \E a \in RestoredAccounts : accountUrl' = Some(a.accountUrl)
  /\ UNCHANGED <<notLegacy, directory, privateKey, call, pc, arg, accountLocals, result,
                 calls, requestLogs, directoryLogs, legacy>>

\* restoreAccount(accountUrl, privateKey): not async, made between two calls
RestoreAccount ==
  /\ call = "idle"
  /\ \E a \in RestoredAccounts :
       /\ accountUrl' = Some(a.accountUrl)
       /\ privateKey' = Some(a.privateKey)
  /\ UNCHANGED <<notLegacy, directory, call, pc, arg, accountLocals, result, calls,
                 requestLogs, directoryLogs, legacy>>

\* setDnsProvider(provider): not async, made between two calls
SetDnsProvider ==
  /\ call = "idle"
  /\ dnsProvider' = Some("provider")
  /\ UNCHANGED <<notLegacy, fields, call, pc, arg, accountLocals, result, calls,
                 requestLogs, directoryLogs, challengeLocals, finalizeLocals,
                 legacyLogs>>

\* ----------------------------------------------------- legacy: the nonce

\* What the HEAD request to newNonce meets in a legacy call.
LegacyNonceFetches ==
  {Undefined} \cup {Some([replayNonce |-> v]) : v \in {Undefined, Some("n1"), Some("n2")}}

\* nonceRes.headers.get('Replay-Nonce'); if (!nonce) throw ...
LegacyNonceError(f) ==
  IF ~IsDefined(f) THEN Some(NetworkError(0))
  ELSE IF ~StrTruthy(Get(f).replayNonce) THEN Some(NonceUnavailable(0))
  ELSE Undefined

\* Where a legacy call goes on with its nonce.
AfterNonce(c) ==
  CASE c = "createAccount" -> "postAccount"
    [] c = "orderCertificate" -> "postOrder"
    [] c = "completeDns01Challenges" -> "postChallenge"
    [] OTHER -> "postFinalize"

\* 1. Fetch a fresh nonce: the HEAD request each legacy call makes inline
FetchNonce ==
  /\ InLegacy(call, "nonce")
  /\ \E f \in LegacyNonceFetches :
       LET error == LegacyNonceError(f)
           id == [call |-> calls, request |-> Len(nonceReqs) + 1]
       IN /\ nonceReqs' = Append(nonceReqs,
                                 [id |-> id, attempt |-> 0,
                                  url |-> Get(directory).newNonce,
                                  value |-> IF IsDefined(f) THEN Get(f).replayNonce
                                            ELSE Undefined])
          /\ IF IsDefined(error)
               THEN nonce' = nonce /\ Throw(Get(error))
               ELSE /\ nonce' = Some([id |-> id, value |-> Get(Get(f).replayNonce)])
                    /\ pc' = AfterNonce(call)
                    /\ result' = result
  /\ UNCHANGED <<fields, keyPair, posts, directoryLogs, legacy>>

\* A header that names the account and embeds a key as well.
KidHeader_WithJwk(n, url, kid) ==
  [alg |-> "ES256", kid |-> kid, nonce |-> n, url |-> url, jwk |-> ExportJWK([pub |-> 0])]

\* The protected header of a request made for an account: kid, no jwk.
KidHeader(n, url, kid) == [alg |-> "ES256", kid |-> kid, nonce |-> n, url |-> url]

\* A signed POST as the logs keep it.
SignedPost(url, header, payload, key, f) ==
  [attempt |-> 0, url |-> url, protected |-> header, nonceId |-> Get(nonce).id,
   payload |-> payload, signedBy |-> key, response |-> f]

\* One error for every request, whatever was asked.
RequestFailed_Generic(text, r) ==
  Err(Msg("Request failed", r.status, ReadBody(r)), Undefined, 0)

\* try { await res.text() } catch { '(No response body)' }, in the legacy errors
RequestFailed(text, r) == Err(Msg(text, r.status, ReadBody(r)), Undefined, 0)

\* ------------------------------------------------ legacy: createAccount

\* What the POST to newAccount meets in the legacy client.
LegacyAccountFetches ==
  {Undefined,
   Some(AccountResp(201, BodyEmpty, FALSE, Some("https://ca/acct/1"))),
   Some(AccountResp(201, BodyEmpty, FALSE, Undefined)),
   Some(AccountResp(403, BodyMalformed, FALSE, Undefined))}

\* async createAccount(email), to its first await
LegacyCreateAccountCall ==
  /\ \E e \in Emails : BeginLegacy("createAccount", Some([email |-> e]))
  /\ result' = Pending
  /\ pc' = IF NeedsDirectory(directory) THEN "getDirectory" ELSE "nonce"
  /\ UNCHANGED <<fields, dnsProvider>>

\* createAccount: the key pair, the signed request, the POST and its outcome
LegacyCreateAccountPost ==
  /\ InLegacy("createAccount", "postAccount")
  /\ \E f \in LegacyAccountFetches :
       LET error == PostError(f, 0)
           pair == KeyPair(calls)
           url == Get(directory).newAccount
           header == ProtectedHeader(Get(nonce).value, url, ExportJWK(pair.publicKey))
           payload == [termsOfServiceAgreed |-> TRUE, contact |-> Get(arg).email]
       IN /\ keyPair' = Some(pair)
          /\ posts' = Append(posts, SignedPost(url, header, payload, SigningKey(pair), f))
          /\ IF IsDefined(error)
               THEN Throw(Get(error)) /\ UNCHANGED <<accountUrl, privateKey>>
               ELSE /\ accountUrl' = Get(f).location
                    /\ privateKey' = Some(SigningKey(pair))
                    /\ pc' = "done"
                    /\ result' = Fulfilled([accountUrl |-> Get(Get(f).location),
                                            privateKey |-> SigningKey(pair)])
  /\ UNCHANGED <<directory, nonce, nonceReqs, directoryLogs, legacy>>

\* --------------------------------------------- legacy: orderCertificate

\* The domains a certificate is ordered for.
DomainLists == {<<"a.example", "b.example">>}

\* domains.map((d) => ({ type: 'dns', value: d }))
Identifiers(domains) == [i \in 1..Len(domains) |-> [type |-> "dns", value |-> domains[i]]]

AuthzUrlA == "https://ca/authz/a"
AuthzUrlB == "https://ca/authz/b"
FinalizeUrl == "https://ca/order/1/finalize"
CertificateUrl == "https://ca/cert/1"

\* An AcmeOrder: the order resource as the CA sends it.
AcmeOrder(status, authorizations, certificate) ==
  [status |-> status,
   identifiers |-> Identifiers(<<"a.example", "b.example">>),
   authorizations |-> authorizations,
   finalize |-> FinalizeUrl,
   certificate |-> certificate]

\* A response whose JSON body is an order, an authorization or nothing.
JsonResp(s, b, json) == [status |-> s, body |-> b, textFails |-> FALSE, json |-> json]

\* What the POST to newOrder meets.
OrderFetches ==
  {Undefined,
   Some(JsonResp(403, BodyMalformed, Undefined)),
   Some(JsonResp(201, BodyEmpty,
                 Some(AcmeOrder("pending", <<AuthzUrlA, AuthzUrlB>>, Undefined))))}

\* async orderCertificate(domains), to its first await
OrderCertificateCall ==
  /\ \E d \in DomainLists : BeginLegacy("orderCertificate", Some([domains |-> d]))
  /\ result' = Pending
  /\ pc' = IF NeedsDirectory(directory) THEN "getDirectory" ELSE "checkAccount"
  /\ UNCHANGED <<fields, dnsProvider>>

\* orderCertificate: the account test, made after the directory is there
OrderCertificateCheck ==
  /\ InLegacy("orderCertificate", "checkAccount")
  /\ IF AccountMissing
       THEN Throw(AccountNotSet)
       ELSE pc' = "nonce" /\ result' = result
  /\ UNCHANGED <<fields, accountLocals, requestLogs, directoryLogs, legacy>>

\* orderCertificate: the signed request, the POST to newOrder and its outcome
OrderCertificatePost ==
  /\ InLegacy("orderCertificate", "postOrder")
  /\ \E f \in OrderFetches :
       LET url == Get(directory).newOrder
           header == KidHeader(Get(nonce).value, url, Get(accountUrl))
           payload == [identifiers |-> Identifiers(Get(arg).domains)]
       IN /\ posts' = Append(posts, SignedPost(url, header, payload, Get(privateKey), f))
          /\ IF ~IsDefined(f) THEN Throw(NetworkError(0))
             ELSE IF ~Ok(Get(f).status)
               THEN Throw(RequestFailed("Failed to create ACME order", Get(f)))
             ELSE pc' = "done" /\ result' = Fulfilled(Get(Get(f).json))
  /\ UNCHANGED <<fields, accountLocals, nonceReqs, directoryLogs, legacy>>

\* ------------------------------------- legacy: completeDns01Challenges

\* The orders completeDns01Challenges is given: one or two authorizations.
OrdersGiven ==
  {AcmeOrder("pending", <<AuthzUrlA>>, Undefined),
   AcmeOrder("pending", <<AuthzUrlA, AuthzUrlB>>, Undefined)}

\* The identifier an authorization URL stands for.
IdentifierOf(url) == IF url = AuthzUrlA THEN "a.example" ELSE "b.example"

\* An AcmeChallenge of an authorization.
AcmeChallenge(type, url) ==
  [type |-> type, status |-> "pending",
   url |-> "https://ca/chall/" \o IdentifierOf(url) \o "/" \o type,
   token |-> "token-" \o IdentifierOf(url)]

\* An AcmeAuthorization.
AcmeAuthorization(status, url, types) ==
  [status |-> status,
   identifier |-> [type |-> "dns", value |-> IdentifierOf(url)],
   challenges |-> [i \in 1..Len(types) |-> AcmeChallenge(types[i], url)]]

\* What fetch(authzUrl) meets: a network failure, a non-success status, or an
\* authorization that is valid, or pending with or without a dns-01 challenge.
AuthzFetches(url) ==
  {Undefined,
   Some(JsonResp(404, BodyEmpty, Undefined)),
   Some(JsonResp(200, BodyEmpty, Some(AcmeAuthorization("valid", url, <<"http-01", "dns-01">>)))),
   Some(JsonResp(200, BodyEmpty, Some(AcmeAuthorization("pending", url, <<"http-01", "dns-01">>)))),
   Some(JsonResp(200, BodyEmpty, Some(AcmeAuthorization("pending", url, <<"http-01">>))))}

\* The test of the fetched status dropped: every authorization is worked on.
AlreadyValid_Never(a) == FALSE

\* authz.status === 'valid'
AlreadyValid(a) == a.status = "valid"

\* find() without its test of the type: the first challenge, whatever it is.
FindDns01_AnyType(challenges) ==
  IF challenges = <<>> THEN Undefined ELSE Some(challenges[1])

\* authz.challenges.find((c) => c.type === 'dns-01')
FindDns01(challenges) ==
  LET hits == {i \in 1..Len(challenges) : challenges[i].type = "dns-01"}
  IN IF hits = {} THEN Undefined
     ELSE Some(challenges[CHOOSE i \in hits : \A j \in hits : i <= j])

\* challenge.token + '.KEY_THUMBPRINT_STUB': the account key is not read.
KeyAuthorization(token, key) == token \o ".KEY_THUMBPRINT_STUB"

\* The record named after the identifier alone.
RecordName_Bare(identifier) == identifier

\* `_acme-challenge.${authz.identifier.value}`
RecordName(identifier) == "_acme-challenge." \o identifier

AuthorizationFetchFailed(url) ==
  Err(Msg("Failed to fetch authorization", 0, Some(url)), Undefined, 0)
NoDns01Challenge(identifier) ==
  Err(Msg("No dns-01 challenge", 0, Some(identifier)), Undefined, 0)
DnsProviderFailed == Err(Msg("setRecord failed", 0, Undefined), Undefined, 0)

\* The loop run from the last authorization to the first.
AuthzUrl_Reversed ==
  Get(arg).authorizations[Len(Get(arg).authorizations) - authzIndex]

\* The authorization URL the loop is at.
AuthzUrl == Get(arg).authorizations[authzIndex + 1]

\* async completeDns01Challenges(order): the two tests, then the loop
CompleteDns01ChallengesCall ==
  /\ \E o \in OrdersGiven : BeginLegacy("completeDns01Challenges", Some(o))
  /\ IF AccountMissing THEN Throw(AccountNotSet)
     ELSE IF ~IsDefined(dnsProvider) THEN Throw(DnsProviderNotSet)
     ELSE pc' = "forAuthz" /\ result' = Pending
  /\ UNCHANGED <<fields, dnsProvider>>

\* for (const authzUrl of order.authorizations) ... return completedAuthz
ForAuthorization ==
  /\ InLegacy("completeDns01Challenges", "forAuthz")
  /\ IF authzIndex < Len(Get(arg).authorizations)
       THEN pc' = "fetchAuthz" /\ result' = result
       ELSE pc' = "done" /\ result' = Fulfilled(completedAuthz)
  /\ UNCHANGED <<fields, accountLocals, requestLogs, directoryLogs, legacy>>

\* fetch(authzUrl), and the loop body down to the call of setRecord
FetchAuthorization ==
  /\ InLegacy("completeDns01Challenges", "fetchAuthz")
  /\ \E f \in AuthzFetches(AuthzUrl) :
       /\ authzFetches' = Append(authzFetches, [url |-> AuthzUrl, response |-> f])
       /\ IF ~IsDefined(f) THEN
            Throw(NetworkError(0))
            /\ UNCHANGED <<challengeLocals, keyAuthorizations>>
          ELSE IF ~Ok(Get(f).status) THEN
            Throw(AuthorizationFetchFailed(AuthzUrl))
            /\ UNCHANGED <<challengeLocals, keyAuthorizations>>
          ELSE IF AlreadyValid(Get(Get(f).json)) THEN
            /\ completedAuthz' = Append(completedAuthz, AuthzUrl)
            /\ authzIndex' = authzIndex + 1
            /\ pc' = "forAuthz"
            /\ UNCHANGED <<authz, result, keyAuthorizations>>
          ELSE IF ~IsDefined(FindDns01(Get(Get(f).json).challenges)) THEN
            Throw(NoDns01Challenge(Get(Get(f).json).identifier.value))
            /\ UNCHANGED <<challengeLocals, keyAuthorizations>>
          ELSE
            LET token == Get(FindDns01(Get(Get(f).json).challenges)).token
            IN /\ authz' = Get(f).json
               /\ keyAuthorizations' = keyAuthorizations \cup
                    {[token |-> token, key |-> Get(privateKey),
                      value |-> KeyAuthorization(token, Get(privateKey))]}
               /\ pc' = "setRecord"
               /\ UNCHANGED <<authzIndex, completedAuthz, result>>
  /\ UNCHANGED <<fields, accountLocals, requestLogs, directoryLogs, dnsProvider,
                 finalizeLocals, dnsCalls, pollSleeps, pollFetches, certFetches,
                 statusesSeen>>

\* await this.dnsProvider.setRecord(...), then respondToChallenge to its first
\* await: its account test and its lazy getDirectory
SetRecord ==
  /\ InLegacy("completeDns01Challenges", "setRecord")
  /\ \E ok \in BOOLEAN :
       LET identifier == Get(authz).identifier.value
           challenge == Get(FindDns01(Get(authz).challenges))
       IN /\ dnsCalls' = Append(dnsCalls,
                                [domain |-> identifier,
                                 recordName |-> RecordName(identifier),
                                 value |-> KeyAuthorization(challenge.token, Get(privateKey)),
                                 authzUrl |-> AuthzUrl,
                                 ok |-> ok])
          /\ IF ~ok THEN Throw(DnsProviderFailed)
             ELSE IF AccountMissing THEN Throw(AccountNotSetInner)
             ELSE /\ pc' = IF NeedsDirectory(directory) THEN "getDirectory" ELSE "nonce"
                  /\ result' = result
  /\ UNCHANGED <<fields, accountLocals, requestLogs, directoryLogs, dnsProvider,
                 challengeLocals, finalizeLocals, authzFetches, pollSleeps, pollFetches,
                 certFetches, statusesSeen, keyAuthorizations>>

\* What the POST to a challenge URL meets.
ChallengeFetches ==
  {Undefined,
   Some(JsonResp(400, BodyBadNonce, Undefined)),
   Some(JsonResp(200, BodyEmpty, Undefined))}

\* respondToChallenge: the signed empty payload, the POST, and back in the
\* loop: completedAuthz.push(authzUrl)
RespondToChallengePost ==
  /\ InLegacy("completeDns01Challenges", "postChallenge")
  /\ \E f \in ChallengeFetches :
       LET url == Get(FindDns01(Get(authz).challenges)).url
           header == KidHeader(Get(nonce).value, url, Get(accountUrl))
       IN /\ posts' = Append(posts, SignedPost(url, header, "", Get(privateKey), f))
          /\ IF ~IsDefined(f) THEN
               Throw(NetworkError(0)) /\ UNCHANGED challengeLocals
             ELSE IF ~Ok(Get(f).status) THEN
               Throw(RequestFailed("Failed to respond to challenge", Get(f)))
               /\ UNCHANGED challengeLocals
             ELSE /\ completedAuthz' = Append(completedAuthz, AuthzUrl)
                  /\ authzIndex' = authzIndex + 1
                  /\ authz' = Undefined
                  /\ pc' = "forAuthz"
                  /\ result' = result
  /\ UNCHANGED <<fields, accountLocals, nonceReqs, directoryLogs, dnsProvider,
                 finalizeLocals, legacyLogs>>

\* ------------------------------------------------ legacy: finalizeOrder

\* let attempts = 10
PollBudget == 10

\* A CSR in PEM: its armor lines and its base64 text.
CsrPem == [armor |-> "CERTIFICATE REQUEST", base64 |-> "MIIBCSR"]

\* The PEM armor and the white space removed; the text re-encoded base64url.
CsrB64(pem) == pem.base64

\* The order finalizeOrder is given.
OrdersToFinalize == {AcmeOrder("ready", <<AuthzUrlA, AuthzUrlB>>, Undefined)}

\* The order bodies the CA answers the finalize POST and the polls with.
OrderBodies ==
  {AcmeOrder(st, <<AuthzUrlA, AuthzUrlB>>, c) :
     st \in {"processing", "valid", "invalid"}, c \in {Undefined, Some(CertificateUrl)}}
  \cup {AcmeOrder("valid", <<AuthzUrlA, AuthzUrlB>>, Some(""))}

\* What the POST to order.finalize meets.
FinalizeFetches ==
  {Undefined, Some(JsonResp(403, BodyMalformed, Undefined))}
  \cup {Some(JsonResp(200, BodyEmpty, Some(o))) : o \in OrderBodies}

\* What a poll of order.finalize meets.
PollFetches ==
  {Undefined, Some(JsonResp(500, BodyEmpty, Undefined))}
  \cup {Some(JsonResp(200, BodyEmpty, Some(o))) : o \in OrderBodies}

\* The body served at a certificate URL.
CertificatePem(url) == [pem |-> url]

\* What fetch(finalizedOrder.certificate) meets.
CertificateFetches(url) ==
  {Undefined,
   Some([status |-> 404, text |-> Undefined]),
   Some([status |-> 200, text |-> Some(CertificatePem(url))])}

PollFailed == Err(Msg("Failed to poll order status", 0, Undefined), Undefined, 0)
OrderDidNotFinalize ==
  Err(Msg("Order did not finalize or no certificate URL", 0, Undefined), Undefined, 0)
DownloadFailed == Err(Msg("Failed to download certificate", 0, Undefined), Undefined, 0)

\* The loop test without its status half: polling goes on after 'valid'.
KeepPolling_IgnoresValid(order, n) == n > 0

\* finalizedOrder.status !== 'valid' && attempts-- > 0, for attempts = n
KeepPolling(order, n) == order.status # "valid" /\ n > 0

\* async finalizeOrder(order, csrPem), to its first await
FinalizeOrderCall ==
  /\ \E o \in OrdersToFinalize :
       BeginLegacy("finalizeOrder", Some([order |-> o, csrPem |-> CsrPem]))
  /\ IF AccountMissing
       THEN Throw(AccountNotSet)
       ELSE /\ pc' = IF NeedsDirectory(directory) THEN "getDirectory" ELSE "nonce"
            /\ result' = Pending
  /\ UNCHANGED <<fields, dnsProvider>>

\* finalizeOrder: the signed CSR, the POST to order.finalize and its outcome
FinalizeOrderPost ==
  /\ InLegacy("finalizeOrder", "postFinalize")
  /\ \E f \in FinalizeFetches :
       LET url == Get(arg).order.finalize
           header == KidHeader(Get(nonce).value, url, Get(accountUrl))
           payload == [csr |-> CsrB64(Get(arg).csrPem)]
       IN /\ posts' = Append(posts, SignedPost(url, header, payload, Get(privateKey), f))
          /\ IF ~IsDefined(f) THEN
               Throw(NetworkError(0)) /\ UNCHANGED <<finalizeLocals, statusesSeen>>
             ELSE IF ~Ok(Get(f).status) THEN
               Throw(RequestFailed("Failed to finalize ACME order", Get(f)))
               /\ UNCHANGED <<finalizeLocals, statusesSeen>>
             ELSE /\ finalizedOrder' = Get(f).json
                  /\ attempts' = PollBudget
                  /\ statusesSeen' = statusesSeen \cup {Get(Get(f).json).status}
                  /\ pc' = "pollTest"
                  /\ result' = result
  /\ UNCHANGED <<fields, accountLocals, nonceReqs, directoryLogs, dnsProvider,
                 challengeLocals, authzFetches, dnsCalls, pollSleeps, pollFetches,
                 certFetches, keyAuthorizations>>

\* while (finalizedOrder.status !== 'valid' && attempts-- > 0), and on leaving
\* the loop: if (!finalizedOrder.certificate) throw
PollTest ==
  /\ InLegacy("finalizeOrder", "pollTest")
  /\ LET order == Get(finalizedOrder)
         notValid == order.status # "valid"
     IN /\ attempts' = IF notValid THEN attempts - 1 ELSE attempts
        /\ IF KeepPolling(order, attempts)
             THEN pc' = "pollSleep" /\ result' = result
             ELSE IF ~StrTruthy(order.certificate)
               THEN Throw(OrderDidNotFinalize)
               ELSE pc' = "download" /\ result' = result
  /\ UNCHANGED <<fields, accountLocals, requestLogs, directoryLogs, dnsProvider,
                 challengeLocals, finalizedOrder, legacyLogs>>

\* await new Promise((r) => setTimeout(r, 2000))
PollSleep ==
  /\ InLegacy("finalizeOrder", "pollSleep")
  /\ pollSleeps' = pollSleeps + 1
  /\ pc' = "pollFetch"
  /\ UNCHANGED <<fields, accountLocals, requestLogs, directoryLogs, dnsProvider,
                 challengeLocals, finalizeLocals, authzFetches, dnsCalls, pollFetches,
                 certFetches, statusesSeen, keyAuthorizations, result>>

\* const pollRes = await fetch(order.finalize) ... finalizedOrder = ...
PollFetch ==
  /\ InLegacy("finalizeOrder", "pollFetch")
  /\ pollFetches' = pollFetches + 1
  /\ \E f \in PollFetches :
       IF ~IsDefined(f) THEN
         Throw(NetworkError(0)) /\ UNCHANGED <<finalizedOrder, statusesSeen>>
       ELSE IF ~Ok(Get(f).status) THEN
         Throw(PollFailed) /\ UNCHANGED <<finalizedOrder, statusesSeen>>
       ELSE /\ finalizedOrder' = Get(f).json
            /\ statusesSeen' = statusesSeen \cup {Get(Get(f).json).status}
            /\ pc' = "pollTest"
            /\ result' = result
  /\ UNCHANGED <<fields, accountLocals, requestLogs, directoryLogs, dnsProvider,
                 challengeLocals, attempts, authzFetches, dnsCalls, pollSleeps,
                 certFetches, keyAuthorizations>>

\* 7. Download certificate
DownloadCertificate ==
  /\ InLegacy("finalizeOrder", "download")
  /\ LET url == Get(Get(finalizedOrder).certificate)
     IN /\ certFetches' = Append(certFetches, url)
        /\ \E f \in CertificateFetches(url) :
             IF ~IsDefined(f) THEN Throw(NetworkError(0))
             ELSE IF ~Ok(Get(f).status) THEN Throw(DownloadFailed)
             ELSE pc' = "done" /\ result' = Fulfilled(Get(Get(f).text))
  /\ UNCHANGED <<fields, accountLocals, requestLogs, directoryLogs, dnsProvider,
                 challengeLocals, finalizeLocals, authzFetches, dnsCalls, pollSleeps,
                 pollFetches, statusesSeen, keyAuthorizations>>

\* ---------------------------------------------------------- specifications

\* The state a constructor leaves, for a given partial retry configuration.
Constructed(partial) ==
  /\ given = partial
  /\ retryConfig = MergeRetryConfig(partial)
  /\ directory = Undefined
  /\ directoryProfile = Undefined
  /\ accountUrl = Undefined
  /\ privateKey = Undefined
  /\ call = "idle"
  /\ pc = "idle"
  /\ arg = Undefined
  /\ attempt = 0
  /\ delay = 0
  /\ lastError = Undefined
  /\ keyPair = Undefined
  /\ nonce = Undefined
  /\ result = Pending
  /\ calls = 0
  /\ initCalled = FALSE
  /\ opLog = <<>>
  /\ sleeps = <<>>
  /\ nonceReqs = <<>>
  /\ posts = <<>>
  /\ dirFetches = 0
  /\ dirStores = 0
  /\ lastDirFetch = Undefined
  /\ dnsProvider = Undefined
  /\ authzIndex = 0
  /\ authz = Undefined
  /\ completedAuthz = <<>>
  /\ finalizedOrder = Undefined
  /\ attempts = 0
  /\ authzFetches = <<>>
  /\ dnsCalls = <<>>
  /\ pollSleeps = 0
  /\ pollFetches = 0
  /\ certFetches = <<>>
  /\ statusesSeen = {}
  /\ keyAuthorizations = {}

\* No two clients are run side by side, and no calls concurrently.
Alone ==
  /\ clients = <<>>
  /\ traffic = <<>>
  /\ tasks = <<>>

\* new AcmeClient(url, given), for every partial configuration
InitRetry == Alone /\ \E g \in GivenConfigs : Constructed(g)

NextRetry ==
  \/ RetryCall
  \/ WithRetryEnter
  \/ WithRetryLoop
  \/ Operation
  \/ WithRetryCatch
  \/ WithRetryWait
  \/ Return

\* A client whose withRetry is called with arbitrary operations.
SpecRetry == InitRetry /\ [][NextRetry]_vars

\* new AcmeClient(url, { maxRetries }), with maxRetries up to MaxAccountRetries
Init ==
  /\ Alone
  /\ \E g \in GivenConfigs :
       /\ DOMAIN g = {"maxRetries"}
       /\ g.maxRetries <= MaxAccountRetries
       /\ Constructed(g)

Next ==
  \/ InitCall
  \/ ShowProfilesCall
  \/ SetProfileCall
  \/ SetAccountCall
  \/ CreateAccountCall
  \/ GetDirectory
  \/ ShowProfilesBody
  \/ SetProfileBody
  \/ GenerateKeyPair
  \/ WithRetryEnter
  \/ WithRetryLoop
  \/ GetNonce
  \/ Post
  \/ WithRetryCatch
  \/ WithRetryWait
  \/ Return

\* A client on which the public calls are made one after the other.
Spec == Init /\ [][Next]_vars

\* The partial configurations of every subset of the four fields, the empty
\* one included: new AcmeClient(url) and new AcmeClient(url, { ... }).
PartialConfigs ==
  { [f \in S |->
       CASE f = "maxRetries" -> 1
         [] f = "initialDelay" -> 100
         [] f = "maxDelay" -> 250
         [] f = "backoffFactor" -> 3] : S \in SUBSET RetryFields }

\* new AcmeClient(url, partial), for every subset of the fields
InitConfig == Alone /\ \E g \in PartialConfigs : Constructed(g)

\* createAccount, called on the clients whose maxRetries is within the bound
CreateAccountCallWithin ==
  /\ retryConfig.maxRetries <= MaxAccountRetries
  /\ CreateAccountCall

NextConfig ==
  \/ InitCall
  \/ ShowProfilesCall
  \/ SetProfileCall
  \/ SetAccountCall
  \/ CreateAccountCallWithin
  \/ CreateOrderCall
  \/ GetDirectory
  \/ ShowProfilesBody
  \/ SetProfileBody
  \/ GenerateKeyPair
  \/ WithRetryEnter
  \/ WithRetryLoop
  \/ GetNonce
  \/ Post
  \/ WithRetryCatch
  \/ WithRetryWait
  \/ Return

\* A client constructed with any subset of the retry fields, on which the
\* public calls are made one after the other.
SpecConfig == InitConfig /\ [][NextConfig]_vars

\* new AcmeClient(directoryUrl), of src/old/acmeClient.ts
InitLegacy == Alone /\ Constructed(<<>>)

NextLegacy ==
  \/ LegacyGetDirectoryCall
  \/ RestoreAccount
  \/ SetDnsProvider
  \/ LegacyCreateAccountCall
  \/ OrderCertificateCall
  \/ CompleteDns01ChallengesCall
  \/ FinalizeOrderCall
  \/ LegacyGetDirectory
  \/ FetchNonce
  \/ LegacyCreateAccountPost
  \/ OrderCertificateCheck
  \/ OrderCertificatePost
  \/ ForAuthorization
  \/ FetchAuthorization
  \/ SetRecord
  \/ RespondToChallengePost
  \/ FinalizeOrderPost
  \/ PollTest
  \/ PollSleep
  \/ PollFetch
  \/ DownloadCertificate
  \/ LegacyReturn

\* A legacy client on which the public calls are made one after the other.
SpecLegacy == InitLegacy /\ [][NextLegacy]_vars

\* The steps a running finalizeOrder takes.
FinalizeOrderStep ==
  \/ LegacyGetDirectory
  \/ FetchNonce
  \/ FinalizeOrderPost
  \/ PollTest
  \/ PollSleep
  \/ PollFetch
  \/ DownloadCertificate

\* The same, where no request and no timer of a running finalizeOrder stays
\* pending for ever: every fetch and every setTimeout completes.
SpecLegacyFair == SpecLegacy /\ WF_vars(call = "finalizeOrder" /\ FinalizeOrderStep)

\* ------------------------------------------- claims on the retry policy

RECURSIVE Pow(_, _)
Pow(b, e) == IF e = 0 THEN 1 ELSE b * Pow(b, e - 1)

\* A body that contains "nonce" in some letter case, letter by letter.
NonceLetters == <<{"n", "N"}, {"o", "O"}, {"n", "N"}, {"c", "C"}, {"e", "E"}>>
MentionsNonce(b) ==
  \E i \in 1..(Len(b) - 4) : \A j \in 1..5 : b[i + j - 1] \in NonceLetters[j]

InRetryCall == call = "withRetry"
RetrySettled == pc \in {"done", "idle"} /\ result.kind # "pending"
FailsWith(o, s) == ~o.ok /\ IsDefined(o.response) /\ Get(o.response).status = s
AllFail500 == \A i \in 1..Len(opLog) : FailsWith(opLog[i], 500)
ErrorOf(n) == OperationFailed(opLog[n].response, n)

\* C1: with maxRetries = R and an operation that fails with HTTP 500 on every
\* attempt, a settled withRetry has invoked the operation exactly R + 1 times
\* and has rejected with the error of the last attempt.
C1_AlwaysFailingMakesRPlusOneAttempts ==
  (RetrySettled /\ AllFail500) =>
    /\ Len(opLog) = retryConfig.maxRetries + 1
    /\ result = Rejected(ErrorOf(Len(opLog)))

\* C2: an operation that fails with HTTP 500 exactly N times and then
\* succeeds, under maxRetries >= N: withRetry returns the success value after
\* N + 1 invocations and N sleeps; in particular no run settles after only
\* N <= maxRetries failures.
C2_SucceedsAfterNFailures ==
  RetrySettled =>
    /\ (AllFail500 => Len(opLog) > retryConfig.maxRetries)
    /\ \A n \in 0..retryConfig.maxRetries :
         ( /\ Len(opLog) = n + 1
           /\ opLog[n + 1].ok
           /\ \A i \in 1..n : FailsWith(opLog[i], 500) )
         => (result = Fulfilled("success") /\ Len(sleeps) = n)

\* C3: an operation whose failure carries HTTP 401 (or another 4xx other than
\* 400 and 429) is attempted exactly once, is never followed by a sleep, and
\* withRetry rejects with that same error.
Fatal4xx(o) ==
  /\ ~o.ok
  /\ IsDefined(o.response)
  /\ Get(o.response).status \in (400..499) \ {400, 429}
C3_FatalStatusAttemptedOnce ==
  (opLog # <<>> /\ Fatal4xx(opLog[1])) =>
    /\ Len(opLog) = 1
    /\ sleeps = <<>>
    /\ (RetrySettled => result = Rejected(ErrorOf(1)))

\* C4: the k-th delay passed to the sleep step equals
\* min(initialDelay * backoffFactor^(k-1), maxDelay), so no delay exceeds
\* maxDelay, whatever the retry configuration.
C4_DelaysGeometricCapped ==
  \A k \in 1..Len(sleeps) :
    /\ sleeps[k] = Min(retryConfig.initialDelay * Pow(retryConfig.backoffFactor, k - 1),
                       retryConfig.maxDelay)
    /\ sleeps[k] <= retryConfig.maxDelay

\* C5: a failure with HTTP 400 whose body does not mention "nonce" is rethrown
\* at once: it is the last invocation, no sleep follows it (one sleep per
\* earlier failure only), and the rejection is that very error.
Is400WithoutNonce(o) == FailsWith(o, 400) /\ ~MentionsNonce(Get(o.response).body)
C5_Plain400RethrownAtOnce ==
  \A n \in 1..Len(opLog) :
    Is400WithoutNonce(opLog[n]) =>
      /\ n = Len(opLog)
      /\ Len(sleeps) = n - 1
      /\ pc \in {"catch", "done", "idle"}
      /\ (pc # "catch" => result = Rejected(ErrorOf(n)))

\* C5 witness: after an earlier retry, a 400 "malformed" failure has ended the
\* call with that error.
C5_Witness ==
  /\ InRetryCall
  /\ pc = "done"
  /\ Len(opLog) = 2
  /\ Is400WithoutNonce(opLog[2])
  /\ Len(sleeps) = 1
  /\ result = Rejected(ErrorOf(2))

\* C6: while retries remain (fewer than maxRetries re-attempts made), a failure
\* with no response, HTTP 429, HTTP >= 500, or HTTP 400 with a readable body
\* mentioning "nonce" is followed by one sleep and a re-attempt: the call never
\* settles with it as the last invocation.
Transient(o) ==
  /\ ~o.ok
  /\ \/ ~IsDefined(o.response)
     \/ Get(o.response).status = 429
     \/ Get(o.response).status >= 500
     \/ /\ Get(o.response).status = 400
        /\ ~Get(o.response).textFails
        /\ MentionsNonce(Get(o.response).body)
C6_TransientFailureRetried ==
  \A n \in 1..Len(opLog) :
    (Transient(opLog[n]) /\ n <= retryConfig.maxRetries) =>
      /\ (RetrySettled => n < Len(opLog))
      /\ (n < Len(opLog) => Len(sleeps) >= n)

\* ------------------------------------- claims on the nonce and the account

\* C7: every signed POST carries the nonce returned by a newNonce request made
\* in the same attempt of the same call, and no newNonce request's nonce is
\* carried by two POSTs.
C7_EachPostOwnNonce ==
  /\ \A i \in 1..Len(posts) :
       \E j \in 1..Len(nonceReqs) :
         /\ nonceReqs[j].id = posts[i].nonceId
         /\ nonceReqs[j].id.call = calls
         /\ nonceReqs[j].attempt = posts[i].attempt
         /\ nonceReqs[j].value = Some(posts[i].protected.nonce)
  /\ \A i, j \in 1..Len(posts) : i # j => posts[i].nonceId # posts[j].nonceId

\* C7 witness: a re-attempt has POSTed, and the CA served the same nonce value
\* to both requests.
C7_Witness ==
  /\ call = "createAccount"
  /\ Len(posts) = 2
  /\ posts[1].protected.nonce = posts[2].protected.nonce
  /\ posts[1].attempt # posts[2].attempt

\* ----------------------------------------------- claims on the directory

AllSixPresent(data) ==
  /\ \A f \in EndpointNames : data[f] # Undefined /\ data[f] # Some("")
  /\ data.meta # Undefined

DirectoryAnswered ==
  /\ IsDefined(lastDirFetch)
  /\ IsDefined(Get(lastDirFetch).response)
  /\ Ok(Get(Get(lastDirFetch).response).status)

\* C8: a success response with all five endpoints and meta present stores a
\* directory holding exactly those five values and getDirectory returns; with
\* any of the six missing the call fails with the incomplete-directory error
\* and this.directory is what it was.
C8_DirectoryResolution ==
  DirectoryAnswered =>
    LET data == Get(Get(lastDirFetch).response).data
    IN IF AllSixPresent(data)
         THEN /\ IsDefined(directory)
              /\ \A f \in EndpointNames : Get(directory)[f] = data[f]
              /\ result # Rejected(IncompleteDirectory)
              /\ (call = "init" => (pc = "done" /\ result = Fulfilled("undefined")))
         ELSE /\ pc \in {"done", "idle"}
              /\ result = Rejected(IncompleteDirectory)
              /\ directory = Get(lastDirFetch).before

\* C8 witness: a directory was stored and a later response, which lacks a
\* member, has failed init().
C8_Witness ==
  /\ DirectoryAnswered
  /\ ~AllSixPresent(Get(Get(lastDirFetch).response).data)
  /\ IsDefined(Get(lastDirFetch).before)
  /\ call = "init"
  /\ pc = "done"

\* C9: while init() has not been called, this.directory is assigned at most
\* once, and once it is set no step of createAccount, showProfiles or
\* setProfile requests the directory URL or changes this.directory.
C9_LazyResolutionOnce ==
  [][ (~initCalled') =>
        /\ dirStores' <= 1
        /\ IsDefined(directory) => (directory' = directory /\ dirFetches' = dirFetches)
    ]_vars

\* C9 witness: three calls were made without init(), one fetch resolved the
\* directory, and the third call has ended.
C9_Witness ==
  /\ ~initCalled
  /\ calls >= 3
  /\ dirFetches = 1
  /\ dirStores = 1
  /\ pc = "done"

\* --------------------------------------------------- claims on createAccount

\* The last invocation of the operation of createAccount made a POST.
LastAttemptPosted ==
  /\ call = "createAccount"
  /\ posts # <<>>
  /\ posts[Len(posts)].attempt + 1 = Len(opLog)

IsAccountCreationError(e, r) ==
  /\ e.message.text = "Failed to create ACME account"
  /\ e.message.status = r.status
  /\ e.message.detail = (IF r.textFails THEN Undefined ELSE Some(r.body))

AnsweredWithoutLocation(p) ==
  /\ IsDefined(p.response)
  /\ Ok(Get(p.response).status)
  /\ ~IsDefined(Get(p.response).location)

\* C11: a newAccount POST answered with a success status and no Location is
\* the call's last POST: no sleep and no other POST follows it, and the call
\* rejects with the missing-account-URL error.
C11_MissingLocationNotRetried ==
  \A i \in 1..Len(posts) :
    AnsweredWithoutLocation(posts[i]) =>
      /\ i = Len(posts)
      /\ Len(sleeps) = posts[i].attempt
      /\ pc \in {"catch", "done", "idle"}
      /\ (pc # "catch" =>
            /\ result.kind = "rejected"
            /\ result.error.message.text = "No account URL returned by ACME server.")

\* A POST answered with 401, 403 or 404.
AnsweredNonTransient(p) ==
  /\ IsDefined(p.response)
  /\ Get(p.response).status \in {401, 403, 404}

\* C12: a newAccount POST answered 401, 403 or 404 is the only POST of the
\* call: no sleep is made, and that failure is what the caller receives.
C12_NonTransientStatusPropagates ==
  \A i \in 1..Len(posts) :
    AnsweredNonTransient(posts[i]) =>
      /\ Len(posts) = 1
      /\ sleeps = <<>>
      /\ pc \in {"catch", "done", "idle"}
      /\ (pc # "catch" =>
            /\ result.kind = "rejected"
            /\ IsAccountCreationError(result.error, Get(posts[i].response)))

\* ------------------------------------------ claims on the signed requests

LegacyAccountCalls == {"orderCertificate", "completeDns01Challenges", "finalizeOrder"}

\* C13: the protected header of every signed request has alg, a nonce and the
\* URL the request is POSTed to, and exactly one of jwk and kid: jwk in
\* createAccount, kid, equal to this.accountUrl, in orderCertificate,
\* respondToChallenge and finalizeOrder.
C13_SignedEnvelopeHeader ==
  \A i \in 1..Len(posts) :
    LET header == posts[i].protected
        names == DOMAIN header
    IN /\ {"alg", "nonce", "url"} \subseteq names
       /\ header.alg = "ES256"
       /\ header.nonce # ""
       /\ header.url = posts[i].url
       /\ ("jwk" \in names) # ("kid" \in names)
       /\ call # "idle" =>
            /\ ("jwk" \in names) <=> (call = "createAccount")
            /\ ("kid" \in names) =>
                 (call \in LegacyAccountCalls /\ accountUrl = Some(header.kid))

\* C13 witness: completeDns01Challenges has notified two challenges for the
\* restored account.
C13_Witness ==
  /\ call = "completeDns01Challenges"
  /\ Len(posts) = 2
  /\ posts[2].protected.kid = "https://ca/acct/8"
  /\ posts[1].url # posts[2].url

\* ------------------------------------ claims on completeDns01Challenges

FetchedValid(a) ==
  /\ IsDefined(a.response)
  /\ Ok(Get(a.response).status)
  /\ Get(Get(a.response).json).status = "valid"

ChallengeUrls(a) ==
  {Get(Get(a.response).json).challenges[j].url :
     j \in 1..Len(Get(Get(a.response).json).challenges)}

InSeq(x, q) == \E j \in 1..Len(q) : q[j] = x

\* C14: for an authorization fetched with status valid, setRecord is not
\* called, no POST goes to any of its challenge URLs, and its URL is in
\* completedAuthz and in the list the call returns.
C14_ValidAuthorizationSkipped ==
  \A i \in 1..Len(authzFetches) :
    FetchedValid(authzFetches[i]) =>
      /\ \A j \in 1..Len(dnsCalls) : dnsCalls[j].authzUrl # authzFetches[i].url
      /\ \A j \in 1..Len(posts) : posts[j].url \notin ChallengeUrls(authzFetches[i])
      /\ InSeq(authzFetches[i].url, completedAuthz)
      /\ (pc = "done" /\ result.kind = "fulfilled") =>
            InSeq(authzFetches[i].url, result.value)

\* C14 witness: of two authorizations the first was valid and the second was
\* worked on, and the call has returned both URLs.
C14_Witness ==
  /\ call = "completeDns01Challenges"
  /\ pc = "done"
  /\ Len(authzFetches) = 2
  /\ FetchedValid(authzFetches[1])
  /\ Len(dnsCalls) = 1
  /\ Len(posts) = 1
  /\ result = Fulfilled(<<AuthzUrlA, AuthzUrlB>>)

\* The POSTs made to a challenge of the authorization fetched as a.
NotifiedFor(a) == {j \in 1..Len(posts) : posts[j].url \in ChallengeUrls(a)}

\* C15, the order of the steps: a notification POST is sent only when the last
\* thing the DNS provider did was to complete setRecord for this authorization,
\* under the name _acme-challenge.<identifier> and for its identifier; and the
\* URL of an authorization that was not valid is pushed only in the step in
\* which its notification POST is answered with a success status.
C15_Steps ==
  (call = "completeDns01Challenges" /\ call' = call) =>
    /\ posts' # posts =>
         /\ dnsCalls # <<>>
         /\ dnsCalls' = dnsCalls
         /\ LET d == dnsCalls[Len(dnsCalls)]
                identifier == Get(authz).identifier.value
            IN /\ d.ok
               /\ d.authzUrl = Get(arg).authorizations[authzIndex + 1]
               /\ d.domain = identifier
               /\ d.recordName = "_acme-challenge." \o identifier
               /\ posts'[Len(posts')].url \in
                    {Get(authz).challenges[j].url : j \in 1..Len(Get(authz).challenges)}
    /\ (completedAuthz' # completedAuthz /\ ~FetchedValid(authzFetches'[Len(authzFetches')])) =>
         /\ posts' # posts
         /\ IsDefined(posts'[Len(posts')].response)
         /\ Ok(Get(posts'[Len(posts')].response).status)
         /\ completedAuthz' = Append(completedAuthz, Get(arg).authorizations[authzIndex + 1])

\* C15, what the logs show: an authorization that was not valid is in
\* completedAuthz only with a notification POST answered with success; once
\* setRecord or a notification POST has failed, the call has thrown, no POST
\* followed the failed setRecord, and the URL is in no list.
C15_Logs ==
  call = "completeDns01Challenges" =>
    /\ \A i \in 1..Len(authzFetches) :
         (InSeq(authzFetches[i].url, completedAuthz) /\ ~FetchedValid(authzFetches[i])) =>
           \E j \in NotifiedFor(authzFetches[i]) :
             IsDefined(posts[j].response) /\ Ok(Get(posts[j].response).status)
    /\ \A k \in 1..Len(dnsCalls) :
         ~dnsCalls[k].ok =>
           /\ k = Len(dnsCalls)
           /\ Len(posts) = k - 1
           /\ pc = "done"
           /\ result = Rejected(DnsProviderFailed)
           /\ ~InSeq(dnsCalls[k].authzUrl, completedAuthz)
    /\ \A j \in 1..Len(posts) :
         (~IsDefined(posts[j].response) \/ ~Ok(Get(posts[j].response).status)) =>
           /\ j = Len(posts)
           /\ pc = "done"
           /\ result.kind = "rejected"
           /\ ~InSeq(dnsCalls[Len(dnsCalls)].authzUrl, completedAuthz)

\* C15: for an authorization that is not valid, setRecord for
\* _acme-challenge.<identifier> completes before the notification POST is
\* sent, the URL is added only when that POST returned success, and a failed
\* setRecord or notification leaves the URL out of every result, with no
\* notification after a failed setRecord.
C15_RecordThenNotifyThenComplete == [](C15_Logs) /\ [][C15_Steps]_vars

\* C15 witness: two authorizations were worked on in turn and the second
\* notification was refused: the call has thrown with the first URL pushed.
C15_Witness ==
  /\ call = "completeDns01Challenges"
  /\ pc = "done"
  /\ Len(dnsCalls) = 2
  /\ Len(posts) = 2
  /\ IsDefined(posts[2].response)
  /\ ~Ok(Get(posts[2].response).status)
  /\ completedAuthz = <<AuthzUrlA>>
  /\ result.kind = "rejected"

\* C16: the key authorizations computed for one token and one account key are
\* all the same string, and those computed for one token and two different
\* account keys are different strings.
C16_KeyAuthorizationBindsKey ==
  \A a, b \in keyAuthorizations :
    a.token = b.token =>
      /\ a.key = b.key => a.value = b.value
      /\ a.key # b.key => a.value # b.value

\* ----------------------------------------------- claims on finalizeOrder

\* finalizeOrder has left its loop because attempts ran out.
BudgetSpent ==
  /\ call = "finalizeOrder"
  /\ IsDefined(finalizedOrder)
  /\ Get(finalizedOrder).status # "valid"
  /\ attempts = -1

\* C17: an order that is valid with a non-empty certificate URL once the loop
\* is left has that URL fetched and its body returned; an order that is not
\* valid when the attempts have run out makes finalizeOrder throw the
\* order-did-not-finalize error without a certificate request, whatever else
\* the order carries.
C17_FinalizePolling ==
  (call = "finalizeOrder" /\ pc = "done" /\ IsDefined(finalizedOrder)) =>
    LET order == Get(finalizedOrder)
    IN /\ (order.status = "valid" /\ StrTruthy(order.certificate)
           /\ result.kind = "fulfilled") =>
            /\ pollFetches <= 10
            /\ certFetches = <<Get(order.certificate)>>
            /\ result.value = [pem |-> Get(order.certificate)]
       /\ BudgetSpent =>
            /\ result = Rejected(OrderDidNotFinalize)
            /\ certFetches = <<>>

\* C18: once the finalize response or a poll has reported status invalid, no
\* certificate URL is requested and finalizeOrder ends with the
\* order-did-not-finalize error.
C18_InvalidOrderFails ==
  (call = "finalizeOrder" /\ "invalid" \in statusesSeen) =>
    /\ certFetches = <<>>
    /\ pc # "download"
    /\ pc = "done" => result = Rejected(OrderDidNotFinalize)

\* C19, the counts: at most 10 polls are made, and the sleeps made are the
\* polls made, or one more while the poll that follows a sleep is awaited.
C19_Counts ==
  /\ pollFetches <= 10
  /\ pollSleeps \in {pollFetches, pollFetches + 1}
  /\ (pollSleeps = pollFetches + 1) <=> (call = "finalizeOrder" /\ pc = "pollFetch")

\* C19, the steps: a poll is made only when a sleep has been made for it, and
\* none is made once status valid has been reported.
C19_Steps ==
  (call = "finalizeOrder" /\ call' = call /\ pollFetches' # pollFetches) =>
    /\ pollFetches' = pollFetches + 1
    /\ pollSleeps = pollFetches + 1
    /\ "valid" \notin statusesSeen

\* C19: after the finalize POST at most 10 polls are made, a sleep precedes
\* each poll, no poll follows a response with status valid, and a
\* finalizeOrder whose requests all complete settles.
C19_PollingBounded ==
  /\ [](C19_Counts)
  /\ [][C19_Steps]_vars
  /\ (call = "finalizeOrder") ~> (call = "finalizeOrder" /\ pc = "done")

\* C19 witness: the tenth poll was the first to report valid, and the
\* certificate was returned after ten sleeps and ten polls.
C19_Witness ==
  /\ call = "finalizeOrder"
  /\ pc = "done"
  /\ pollFetches = 10
  /\ pollSleeps = 10
  /\ statusesSeen = {"processing", "valid"}
  /\ result.kind = "fulfilled"

\* The finalize POST was answered with a non-success status.
FinalizeRefused ==
  /\ call = "finalizeOrder"
  /\ posts # <<>>
  /\ IsDefined(posts[1].response)
  /\ ~Ok(Get(posts[1].response).status)

\* C20: when the POST to order.finalize is answered with a non-success status,
\* finalizeOrder throws the finalization-failed error, and no poll, no poll
\* sleep and no certificate request is made.
C20_FinalizeRefusedStopsAtOnce ==
  FinalizeRefused =>
    /\ posts[1].url = Get(arg).order.finalize
    /\ Len(posts) = 1
    /\ pc = "done"
    /\ result.kind = "rejected"
    /\ result.error.message.text = "Failed to finalize ACME order"
    /\ result.error.message.status = Get(posts[1].response).status
    /\ pollFetches = 0
    /\ pollSleeps = 0
    /\ certFetches = <<>>
    /\ finalizedOrder = Undefined

\* C20 witness: the finalize POST was answered 403 and finalizeOrder has thrown.
C20_Witness ==
  /\ FinalizeRefused
  /\ Get(posts[1].response).status = 403
  /\ pc = "done"
  /\ result.kind = "rejected"

\* C21: every certificate request of finalizeOrder goes to the certificate URL
\* of the order last reported, and that order has status valid; and an order
\* that is valid with an empty or absent certificate URL makes finalizeOrder
\* throw the order-did-not-finalize error without a certificate request.
C21_DownloadOnlyFromValidOrder ==
  (call = "finalizeOrder" /\ IsDefined(finalizedOrder)) =>
    LET order == Get(finalizedOrder)
    IN /\ \A i \in 1..Len(certFetches) :
            /\ order.status = "valid"
            /\ order.certificate = Some(certFetches[i])
       /\ (pc = "done" /\ order.status = "valid" /\ ~StrTruthy(order.certificate)) =>
            /\ result = Rejected(OrderDidNotFinalize)
            /\ certFetches = <<>>

\* ------------------------------------------- claims on order creation

\* The response of a POST is a transient failure: no response at all, HTTP
\* 429, HTTP 5xx, or HTTP 400 whose body mentions a nonce.
TransientResponse(r) ==
  \/ ~IsDefined(r)
  \/ Get(r).status = 429
  \/ Get(r).status >= 500
  \/ Get(r).status = 400 /\ MentionsNonce(Get(r).body)

\* C22: an order creation whose first newOrder POST met a transient failure
\* does not settle on it: a second attempt with a nonce of its own is made; and
\* a settled order creation whose last newOrder POST was answered with success
\* has returned the order of that response.
C22_OrderCreationRetried ==
  (call = "orderCertificate" /\ pc = "done" /\ posts # <<>>) =>
    /\ TransientResponse(posts[1].response) =>
         /\ Len(posts) >= 2
         /\ Len(nonceReqs) >= 2
    /\ ~TransientResponse(posts[Len(posts)].response)
         /\ Ok(Get(posts[Len(posts)].response).status) =>
           result = Fulfilled(Get(Get(posts[Len(posts)].response).json))

\* --------------------------- claims on completeDns01Challenges, continued

\* The authorization fetched as a was done with: it was valid, or the last
\* POST went to one of its challenges and was answered with success.
DoneWith(a) ==
  \/ FetchedValid(a)
  \/ /\ posts # <<>>
     /\ posts[Len(posts)].url \in ChallengeUrls(a)
     /\ IsDefined(posts[Len(posts)].response)
     /\ Ok(Get(posts[Len(posts)].response).status)

\* C23, the steps: the k-th authorization fetched is the k-th of
\* order.authorizations, and it is fetched only when each one before it was
\* done with and pushed; setRecord and the notification POST are made for the
\* authorization fetched last.
C23_Steps ==
  (call = "completeDns01Challenges" /\ call' = call) =>
    LET k == Len(authzFetches)
    IN /\ authzFetches' # authzFetches =>
            /\ Len(authzFetches') = k + 1
            /\ SubSeq(authzFetches', 1, k) = authzFetches
            /\ authzFetches'[k + 1].url = Get(arg).authorizations[k + 1]
            /\ k > 0 => DoneWith(authzFetches[k])
            /\ completedAuthz = SubSeq(Get(arg).authorizations, 1, k)
       /\ dnsCalls' # dnsCalls =>
            /\ k > 0
            /\ authzFetches' = authzFetches
            /\ dnsCalls'[Len(dnsCalls')].domain =
                 Get(Get(authzFetches[k].response).json).identifier.value
            /\ completedAuthz = SubSeq(Get(arg).authorizations, 1, k - 1)
       /\ posts' # posts =>
            /\ k > 0
            /\ authzFetches' = authzFetches
            /\ posts'[Len(posts')].url \in ChallengeUrls(authzFetches[k])
            /\ completedAuthz = SubSeq(Get(arg).authorizations, 1, k - 1)

\* C23, the result: the list returned is order.authorizations.
C23_Result ==
  (call = "completeDns01Challenges" /\ pc = "done" /\ result.kind = "fulfilled") =>
    result.value = Get(arg).authorizations

\* C23: the authorizations of an order are worked on one after the other in
\* the order of order.authorizations, none before the one before it is done
\* with, and a call whose steps all succeed returns order.authorizations.
C23_AuthorizationsInOrder == [](C23_Result) /\ [][C23_Steps]_vars

\* C23 witness: two authorizations, neither valid, were each given a record
\* and a notification, and the call has returned both URLs in order.
C23_Witness ==
  /\ call = "completeDns01Challenges"
  /\ pc = "done"
  /\ Len(authzFetches) = 2
  /\ Len(dnsCalls) = 2
  /\ dnsCalls[1].domain = "a.example"
  /\ dnsCalls[2].domain = "b.example"
  /\ Len(posts) = 2
  /\ result = Fulfilled(<<AuthzUrlA, AuthzUrlB>>)

\* The authorization fetched as a is not valid and offers no dns-01 challenge.
FetchedWithoutDns01(a) ==
  /\ IsDefined(a.response)
  /\ Ok(Get(a.response).status)
  /\ Get(Get(a.response).json).status # "valid"
  /\ \A j \in 1..Len(Get(Get(a.response).json).challenges) :
       Get(Get(a.response).json).challenges[j].type # "dns-01"

\* C24: an authorization fetched as not valid and without a dns-01 challenge is
\* the last one fetched: the call has thrown the no-dns-01-challenge error for
\* its identifier, setRecord was not called and no POST was sent for it, and
\* the call returns no list.
C24_NoDns01ChallengeFails ==
  call = "completeDns01Challenges" =>
    \A i \in 1..Len(authzFetches) :
      FetchedWithoutDns01(authzFetches[i]) =>
        LET identifier == Get(Get(authzFetches[i].response).json).identifier.value
        IN /\ i = Len(authzFetches)
           /\ pc = "done"
           /\ result.kind = "rejected"
           /\ result.error.message.text = "No dns-01 challenge"
           /\ result.error.message.detail = Some(identifier)
           /\ \A j \in 1..Len(dnsCalls) : dnsCalls[j].domain # identifier
           /\ \A j \in 1..Len(posts) : posts[j].url \notin ChallengeUrls(authzFetches[i])
           /\ Len(dnsCalls) <= i - 1
           /\ Len(posts) <= i - 1
           /\ ~InSeq(authzFetches[i].url, completedAuthz)

\* C24 witness: the first authorization was worked on, the second offers only
\* http-01, and the call has thrown after one setRecord and one notification.
C24_Witness ==
  /\ call = "completeDns01Challenges"
  /\ pc = "done"
  /\ Len(authzFetches) = 2
  /\ FetchedWithoutDns01(authzFetches[2])
  /\ Len(dnsCalls) = 1
  /\ Len(posts) = 1
  /\ result = Rejected(NoDns01Challenge("b.example"))

\* ------------------------------------------- claims on restoreAccount

\* A step of restoreAccount that changed the account: the only step between
\* two calls that does.
RestoreAccountStep ==
  /\ call = "idle"
  /\ call' = "idle"
  /\ <<accountUrl, privateKey>>' # <<accountUrl, privateKey>>

\* What a client has requested and what it has been answered.
AllRequests ==
  <<requestLogs, directoryLogs, authzFetches, dnsCalls, pollSleeps, pollFetches,
    certFetches>>

\* restoreAccount sets both fields to what it was given, makes no request and
\* leaves directory, directoryProfile and retryConfig as they were.
C25_Steps ==
  RestoreAccountStep =>
    /\ \E a \in RestoredAccounts :
         /\ accountUrl' = Some(a.accountUrl)
         /\ privateKey' = Some(a.privateKey)
    /\ UNCHANGED <<directory, directoryProfile, retryConfig, AllRequests>>

\* A settled call has thrown one of the two account-state-not-set errors.
FailedAccountNotSet ==
  /\ pc = "done"
  /\ result \in {Rejected(AccountNotSet), Rejected(AccountNotSetInner)}

\* C25 as stated: once restoreAccount has assigned the two fields, whatever
\* the values given, no call fails with the account-state-not-set error.
C25_AsStated ==
  (IsDefined(accountUrl) /\ IsDefined(privateKey)) => ~FailedAccountNotSet

\* Once an account with a non-empty URL is set, no call fails with the
\* account-state-not-set error.
C25_Ready ==
  (IsDefined(accountUrl) /\ Get(accountUrl) # "" /\ IsDefined(privateKey)) =>
    ~FailedAccountNotSet

\* C25: restoreAccount makes no request, sets accountUrl and privateKey to the
\* values given and leaves directory, directoryProfile and retryConfig
\* unchanged; after it was given a non-empty account URL, no call fails with
\* the account-state-not-set error.
C25_RestoreAccount == [](C25_Ready) /\ [][C25_Steps]_vars

\* C25 witness: on a client that has made no request, an account was restored
\* and orderCertificate has gone past its account test to its nonce request.
C25_Witness ==
  /\ call = "orderCertificate"
  /\ pc = "nonce"
  /\ accountUrl = Some("https://ca/acct/7")
  /\ privateKey = Some([priv |-> 7])

\* ------------------------------------- claims on the retry configuration

\* C26: a client constructed without a retry configuration has maxRetries 3,
\* initialDelay 1000, maxDelay 10000 and backoffFactor 2.
C26_DefaultRetryConfig ==
  DOMAIN given = {} =>
    /\ retryConfig.maxRetries = 3
    /\ retryConfig.initialDelay = 1000
    /\ retryConfig.maxDelay = 10000
    /\ retryConfig.backoffFactor = 2

\* Each field given has the value given, each field not given the default of
\* the constructor.
C27_Merged ==
  \A f \in RetryFields :
    retryConfig[f] = IF f \in DOMAIN given THEN given[f] ELSE DefaultRetryConfig[f]

NonceAnswered(q) == q.status # 0

\* The response to q carries the header, under one of its two spellings.
HeaderPresent(q) == DOMAIN q.headers \cap {"Replay-Nonce", "replay-nonce"} # {}

\* The response to q carries the header, and the header is not empty.
CarriesNonce(q) ==
  \E h \in DOMAIN q.headers \cap {"Replay-Nonce", "replay-nonce"} : q.headers[h] # ""

\* C28 as stated: a newNonce response that carries the header, whatever its
\* value, has getNonce return: when the operation has failed right after it, a
\* signed POST of that attempt was sent.
C28_AsStated ==
  (call = "createAccount" /\ pc = "catch" /\ nonceReqs # <<>>) =>
    LET q == nonceReqs[Len(nonceReqs)]
    IN (NonceAnswered(q) /\ HeaderPresent(q)) =>
         \E i \in 1..Len(posts) : posts[i].attempt = q.attempt

\* What getNonce does with each response, whatever its status: without a
\* non-empty header it throws the nonce-unavailable error and the operation
\* is left before its POST; with one, the value is what getNonce returns.
C28_Steps ==
  (call = "createAccount" /\ call' = call /\ nonceReqs' # nonceReqs) =>
    LET q == nonceReqs'[Len(nonceReqs')]
    IN NonceAnswered(q) =>
         IF CarriesNonce(q)
           THEN /\ nonce' = Some([id |-> q.id, value |-> Get(q.value)])
                /\ pc' = "post"
           ELSE /\ lastError' = Some(NonceUnavailable(attempt + 1))
                /\ pc' = "catch"
                /\ posts' = posts

\* No signed POST is sent in an attempt whose newNonce response had no nonce,
\* and the POST of another attempt carries the nonce its own response had.
C28_NoPostWithoutNonce ==
  call = "createAccount" =>
    \A j \in 1..Len(nonceReqs) :
      \A i \in 1..Len(posts) :
        posts[i].attempt = nonceReqs[j].attempt =>
          /\ NonceAnswered(nonceReqs[j])
          /\ CarriesNonce(nonceReqs[j])
          /\ posts[i].protected.nonce = Get(nonceReqs[j].value)

\* C28: when the newNonce response carries no Replay-Nonce header under either
\* spelling, or an empty one, getNonce throws the nonce-unavailable error
\* whatever the status and no signed POST is sent in that attempt; when it
\* carries a non-empty one, that value is returned whatever the status.
C28_NonceFromHeaderOnly == [](C28_NoPostWithoutNonce) /\ [][C28_Steps]_vars

\* C28 witness: a 200 without the header ended the first attempt before its
\* POST; the nonce of a 500 response was signed into the POST of the second.
C28_Witness ==
  /\ call = "createAccount"
  /\ Len(nonceReqs) = 2
  /\ nonceReqs[1].status = 200
  /\ ~HeaderPresent(nonceReqs[1])
  /\ nonceReqs[2].status = 500
  /\ Len(posts) = 1
  /\ posts[1].attempt = 1
  /\ posts[1].protected.nonce = "n1"

\* ------------------------------------ claims on the retry policy, continued

\* C30: a withRetry that has rejected has invoked the operation at least once,
\* whatever maxRetries; and when it rejected because its retries were
\* exhausted, that is on a last failure that was transient, it has slept
\* exactly once less than it has invoked the operation: never after the final
\* attempt.
C30_NoSleepAfterFinalAttempt ==
  (InRetryCall /\ pc = "done" /\ result.kind = "rejected") =>
    /\ Len(opLog) >= 1
    /\ Transient(opLog[Len(opLog)]) => Len(sleeps) = Len(opLog) - 1

\* ===================================================== two clients side by side
\* Two instances of AcmeClient in one process, each constructed for its own
\* CA, on which calls are made concurrently: a step of one call runs between
\* two awaits, and the steps of the two instances interleave freely.

\* The number of public calls made on each of the two clients.
MaxCallsEach == 2

Instances == {"A", "B"}

\* new AcmeClient(directoryUrl, retryConfig): the arguments of each instance.
DirectoryUrlOf(i) == IF i = "A" THEN "https://ca/directory" ELSE "https://cb/directory"
GivenTo(i) ==
  IF i = "A" THEN [f \in {"maxRetries"} |-> 1]
  ELSE [f \in {"maxRetries", "initialDelay"} |-> IF f = "maxRetries" THEN 2 ELSE 100]

\* The fields the constructor leaves on an instance, and the locals of the
\* call running on it (none yet).
NewClient(i) ==
  [directoryUrl |-> DirectoryUrlOf(i),
   retryConfig |-> MergeRetryConfig(GivenTo(i)),
   directory |-> Undefined,
   directoryProfile |-> Undefined,
   accountUrl |-> Undefined,
   privateKey |-> Undefined,
   call |-> "idle", pc |-> "idle", arg |-> Undefined, keyPair |-> Undefined,
   nonce |-> Undefined, attempt |-> 0, delay |-> 0, lastError |-> Undefined,
   result |-> Pending, calls |-> 0]

\* What each CA serves: the directory body at its directory URL, and the
\* account URL its newAccount endpoint answers with.
ServedAt(url) == IF url = DirectoryUrlOf("A") THEN DirectoryA ELSE DirectoryB
LocationAt(url) ==
  IF url = Get(DirectoryA.newAccount) THEN "https://ca/acct/1" ELSE "https://cb/acct/1"

\* The fields as static members: an assignment on one instance shows on all.
Assign_Static(cs, i, f, v) == [j \in DOMAIN cs |-> [cs[j] EXCEPT ![f] = v]]

\* this.f = v, on the instance i
Assign(cs, i, f, v) == [cs EXCEPT ![i][f] = v]

\* The locals of the call running on i move on.
Locals(cs, i, l) == [cs EXCEPT ![i] = l @@ cs[i]]

\* fetch(url, ...) made by a call on the instance i
Fetched(i, method, url) == traffic' = traffic \cup {[by |-> i, method |-> method, url |-> url]}

\* The locals of an instance at rest.
AtRest ==
  [call |-> "idle", pc |-> "idle", arg |-> Undefined, keyPair |-> Undefined,
   nonce |-> Undefined, attempt |-> 0, delay |-> 0, lastError |-> Undefined,
   result |-> Pending]

\* A public call on i begins: it runs to its first await.
BeginOn(i, c, a, at) ==
  /\ clients[i].call = "idle"
  /\ clients[i].calls < MaxCallsEach
  /\ clients' = Locals(clients, i, [call |-> c, pc |-> at, arg |-> a,
                                    calls |-> clients[i].calls + 1])
  /\ UNCHANGED <<single, traffic, tasks>>

\* async init(), to its await
InitOn(i) == BeginOn(i, "init", Undefined, "getDirectory")

\* async setProfile(profile), to its first await
SetProfileOn(i) ==
  BeginOn(i, "setProfile", Some("classic"),
          IF NeedsDirectory(clients[i].directory) THEN "getDirectory" ELSE "body")

\* async createAccount(email), to its first await
CreateAccountOn(i) ==
  \E e \in Emails :
    BeginOn(i, "createAccount", Some(e),
            IF NeedsDirectory(clients[i].directory) THEN "getDirectory" ELSE "generateKeyPair")

\* async setAccount(accountUrl, privateKey)
SetAccountOn(i) ==
  /\ clients[i].call = "idle"
  /\ clients[i].calls < MaxCallsEach
  /\ clients' =
       Locals(Assign(Assign(clients, i, "accountUrl", Some("https://ca/acct/7")),
                     i, "privateKey", Some(KeyPair(0).privateKey)),
              i, [call |-> "setAccount", pc |-> "done", result |-> Fulfilled("undefined"),
                  calls |-> clients[i].calls + 1])
  /\ UNCHANGED <<single, traffic, tasks>>

\* private async getDirectory() of i, from the fetch to the assignment
GetDirectoryOn(i) ==
  /\ clients[i].pc = "getDirectory"
  /\ Fetched(i, "GET", clients[i].directoryUrl)
  /\ \E f \in {Undefined, Some([status |-> 200, data |-> ServedAt(clients[i].directoryUrl)])} :
       LET error == GetDirectoryError(f)
       IN clients' =
            IF IsDefined(error)
              THEN Locals(clients, i, [pc |-> "done", result |-> Rejected(Get(error))])
            ELSE Locals(Assign(clients, i, "directory", Some(StoredDirectory(Get(f).data))),
                        i, IF clients[i].call = "init"
                             THEN [pc |-> "done", result |-> Fulfilled("undefined")]
                           ELSE [pc |-> AfterDirectory(clients[i].call)])
  /\ UNCHANGED <<single, tasks>>

\* setProfile(profile) of i, after the directory is there
SetProfileBodyOn(i) ==
  /\ clients[i].call = "setProfile"
  /\ clients[i].pc = "body"
  /\ LET profiles == Get(clients[i].directory).meta.profiles
         p == clients[i].arg
         missing == ~IsDefined(profiles) \/ ~ArrayIncludes(Get(profiles), Get(p))
     IN clients' =
          IF missing
            THEN Locals(clients, i, [pc |-> "done", result |-> Rejected(ProfileNotFound(Get(p)))])
          ELSE Locals(Assign(clients, i, "directoryProfile", p),
                      i, [pc |-> "done", result |-> Fulfilled("undefined")])
  /\ UNCHANGED <<single, traffic, tasks>>

\* createAccount of i: the key pair is generated and withRetry entered
GenerateKeyPairOn(i) ==
  /\ clients[i].pc = "generateKeyPair"
  /\ clients' = Locals(clients, i,
                       [pc |-> "loop",
                        keyPair |-> Some(KeyPair([of |-> i, n |-> clients[i].calls])),
                        attempt |-> 0,
                        delay |-> clients[i].retryConfig.initialDelay])
  /\ UNCHANGED <<single, traffic, tasks>>

\* withRetry of i: the test of the for loop, and the throw after the loop
LoopOn(i) ==
  /\ clients[i].pc = "loop"
  /\ clients' =
       IF clients[i].attempt < clients[i].retryConfig.maxRetries
         THEN Locals(clients, i, [pc |-> "getNonce"])
       ELSE Locals(clients, i,
                   [pc |-> "done",
                    result |-> Rejected(IF IsDefined(clients[i].lastError)
                                          THEN Get(clients[i].lastError)
                                        ELSE UnknownRetryError)])
  /\ UNCHANGED <<single, traffic, tasks>>

\* private async getNonce() of i
GetNonceOn(i) ==
  /\ clients[i].pc = "getNonce"
  /\ Fetched(i, "HEAD", Get(Get(clients[i].directory).newNonce))
  /\ \E f \in {Some(NonceResp(200, NoHeaders)),
               Some(NonceResp(200, Header("Replay-Nonce", "n1")))} :
       LET error == GetNonceError(f, clients[i].attempt + 1)
       IN clients' =
            IF IsDefined(error)
              THEN Locals(clients, i, [pc |-> "catch", lastError |-> error])
            ELSE Locals(clients, i, [pc |-> "post", nonce |-> ReplayNonce(Get(f))])
  /\ UNCHANGED <<single, tasks>>

\* The operation of createAccount on i, from the POST to its return
PostOn(i) ==
  /\ clients[i].pc = "post"
  /\ LET url == Get(Get(clients[i].directory).newAccount)
     IN /\ Fetched(i, "POST", url)
        /\ \E f \in {Some(AccountResp(500, BodyEmpty, FALSE, Undefined)),
                     Some(AccountResp(201, BodyEmpty, FALSE, Some(LocationAt(url))))} :
             LET error == PostError(f, clients[i].attempt + 1)
             IN clients' =
                  IF IsDefined(error)
                    THEN Locals(clients, i, [pc |-> "catch", lastError |-> error])
                  ELSE Locals(Assign(Assign(clients, i, "accountUrl", Get(f).location),
                                     i, "privateKey",
                                     Some(Get(clients[i].keyPair).privateKey)),
                              i, [pc |-> "done",
                                  result |-> Fulfilled([accountUrl |-> Get(Get(f).location),
                                                        privateKey |->
                                                          Get(clients[i].keyPair).privateKey])])
  /\ UNCHANGED <<single, tasks>>

\* withRetry of i: the catch block. The errors of createAccount carry no
\* response, so the call waits and goes round again.
WaitOn(i) ==
  /\ clients[i].pc = "catch"
  /\ clients' = Locals(clients, i,
                       [pc |-> "loop",
                        attempt |-> clients[i].attempt + 1,
                        delay |-> Min(clients[i].delay * clients[i].retryConfig.backoffFactor,
                                      clients[i].retryConfig.maxDelay)])
  /\ UNCHANGED <<single, traffic, tasks>>

\* The promise of the call on i settles and the caller goes on.
ReturnOn(i) ==
  /\ clients[i].pc = "done"
  /\ clients' = Locals(clients, i, AtRest)
  /\ UNCHANGED <<single, traffic, tasks>>

InitTwo ==
  /\ Constructed(<<>>)
  /\ clients = [i \in Instances |-> NewClient(i)]
  /\ traffic = {}
  /\ tasks = <<>>

NextTwo ==
  \/ \E i \in Instances : InitOn(i)
  \/ \E i \in Instances : SetAccountOn(i)
  \/ \E i \in Instances : SetProfileOn(i)
  \/ \E i \in Instances : CreateAccountOn(i)
  \/ \E i \in Instances : GetDirectoryOn(i)
  \/ \E i \in Instances : SetProfileBodyOn(i)
  \/ \E i \in Instances : GenerateKeyPairOn(i)
  \/ \E i \in Instances : LoopOn(i)
  \/ \E i \in Instances : GetNonceOn(i)
  \/ \E i \in Instances : PostOn(i)
  \/ \E i \in Instances : WaitOn(i)
  \/ \E i \in Instances : ReturnOn(i)

\* Two clients, for two CAs, used concurrently.
SpecTwo == InitTwo /\ [][NextTwo]_vars

\* ------------------------------------------- claims on instance isolation

\* The state of an instance the claim speaks of.
IsolatedFields(c) ==
  <<c.directory, c.accountUrl, c.privateKey, c.directoryProfile, c.retryConfig>>

\* This step is a step of a call on the instance i.
StepOn(i) == clients'[i].call # clients[i].call \/ clients'[i].pc # clients[i].pc

\* The URLs of the CA the instance i was constructed for.
UrlsOf(i) ==
  {DirectoryUrlOf(i)} \cup {Get(ServedAt(DirectoryUrlOf(i))[e]) : e \in EndpointNames}

C29_Steps ==
  \A i \in Instances : \A j \in Instances \ {i} :
    StepOn(i) => IsolatedFields(clients'[j]) = IsolatedFields(clients[j])

C29_Requests == \A t \in traffic : t.url \in UrlsOf(t.by)

\* C29: with two clients A and B whose calls (init, createAccount, setAccount,
\* setProfile) interleave in any way, no step of a call on one of them changes
\* the directory, accountUrl, privateKey, directoryProfile or retryConfig of
\* the other, and every request made for a client goes to a URL of that
\* client's own CA.
C29_InstanceIsolation == [](C29_Requests) /\ [][C29_Steps]_vars

\* A has created its account at its CA while a createAccount of B, whose
\* profile is set, is about to post to B's CA.
C29_Witness ==
  /\ clients # <<>>
  /\ clients["A"].call = "createAccount"
  /\ clients["A"].pc = "done"
  /\ clients["A"].accountUrl = Some("https://ca/acct/1")
  /\ clients["B"].call = "createAccount"
  /\ clients["B"].pc = "post"
  /\ clients["B"].directoryProfile = Some("classic")
  /\ clients["B"].accountUrl = Undefined
  /\ [by |-> "A", method |-> "POST", url |-> "https://ca/acct"] \in traffic
  /\ [by |-> "B", method |-> "HEAD", url |-> "https://cb/nonce"] \in traffic

\* ================================================ concurrent calls on one client
\* createAccount and setAccount called on one client without waiting for the
\* calls before them: each call has its own locals, all share the fields of
\* the client, and a step of a call runs between two awaits.

\* The number of calls made concurrently on the client.
MaxTasks == 3

\* What the client of the concurrent calls is constructed with.
GivenShared == [f \in {"maxRetries"} |-> 1]

\* The pairs given to setAccount.
AccountPairs ==
  {[accountUrl |-> "https://ca/acct/7", privateKey |-> KeyPair(7).privateKey],
   [accountUrl |-> "https://ca/acct/8", privateKey |-> KeyPair(8).privateKey]}

\* The account URLs the CA answers a newAccount request with.
Locations == {"https://ca/acct/1", "https://ca/acct/2"}

\* What the concurrent calls leave alone.
untouched ==
  <<retryConfig, given, directoryProfile, call, pc, arg, retryLocals, accountLocals, result,
    calls, initCalled, retryLogs, requestLogs, directoryLogs, legacy, clients>>

\* The locals of a call as it begins.
NewTask(c, a, at) ==
  [call |-> c, pc |-> at, arg |-> a, keyPair |-> Undefined, attempt |-> 0, delay |-> 0,
   lastError |-> Undefined, result |-> Pending]

\* The locals of the call t move on.
TaskMoves(t, l) == tasks' = [tasks EXCEPT ![t] = l @@ tasks[t]]

\* The assignment with the key left as it is once one is stored.
StoreAccount_KeepKey(url, key) ==
  [accountUrl |-> Some(url),
   privateKey |-> IF IsDefined(privateKey) THEN privateKey ELSE Some(key)]

\* this.accountUrl = accountUrl; this.privateKey = privateKey
StoreAccount(url, key) == [accountUrl |-> Some(url), privateKey |-> Some(key)]

\* async createAccount(email), to its first await
StartCreateAccount ==
  /\ Len(tasks) < MaxTasks
  /\ \E e \in Emails :
       tasks' = Append(tasks,
                       NewTask("createAccount", Some(e),
                               IF NeedsDirectory(directory) THEN "getDirectory"
                               ELSE "generateKeyPair"))
  /\ UNCHANGED <<untouched, directory, accountUrl, privateKey, traffic>>

\* async setAccount(accountUrl, privateKey): no await in it
StartSetAccount ==
  /\ Len(tasks) < MaxTasks
  /\ \E a \in AccountPairs :
       LET stored == StoreAccount(a.accountUrl, a.privateKey)
       IN /\ tasks' = Append(tasks, [NewTask("setAccount", Some(a), "done")
                                       EXCEPT !.result = Fulfilled("undefined")])
          /\ accountUrl' = stored.accountUrl
          /\ privateKey' = stored.privateKey
  /\ UNCHANGED <<untouched, directory, traffic>>

\* private async getDirectory(), for the call t
TaskGetDirectory(t) ==
  /\ tasks[t].pc = "getDirectory"
  /\ \E f \in {Undefined, Some([status |-> 200, data |-> DirectoryA])} :
       LET error == GetDirectoryError(f)
       IN IF IsDefined(error)
            THEN /\ TaskMoves(t, [pc |-> "done", result |-> Rejected(Get(error))])
                 /\ UNCHANGED directory
          ELSE /\ TaskMoves(t, [pc |-> AfterDirectory(tasks[t].call)])
               /\ directory' = Some(StoredDirectory(Get(f).data))
  /\ UNCHANGED <<untouched, accountUrl, privateKey, traffic>>

\* createAccount of the call t: the key pair is generated and withRetry entered
TaskGenerateKeyPair(t) ==
  /\ tasks[t].pc = "generateKeyPair"
  /\ TaskMoves(t, [pc |-> "loop", keyPair |-> Some(KeyPair(t)), attempt |-> 0,
                   delay |-> InitialDelay])
  /\ UNCHANGED <<untouched, directory, accountUrl, privateKey, traffic>>

\* withRetry of the call t: the test of the for loop, and the throw after it
TaskLoop(t) ==
  /\ tasks[t].pc = "loop"
  /\ IF tasks[t].attempt < retryConfig.maxRetries
       THEN TaskMoves(t, [pc |-> "getNonce"])
     ELSE TaskMoves(t, [pc |-> "done",
                        result |-> Rejected(IF IsDefined(tasks[t].lastError)
                                              THEN Get(tasks[t].lastError)
                                            ELSE UnknownRetryError)])
  /\ UNCHANGED <<untouched, directory, accountUrl, privateKey, traffic>>

\* private async getNonce(), for the call t
TaskGetNonce(t) ==
  /\ tasks[t].pc = "getNonce"
  /\ \E f \in {Some(NonceResp(200, NoHeaders)),
               Some(NonceResp(200, Header("Replay-Nonce", "n1")))} :
       LET error == GetNonceError(f, tasks[t].attempt + 1)
       IN IF IsDefined(error)
            THEN TaskMoves(t, [pc |-> "catch", lastError |-> error])
          ELSE TaskMoves(t, [pc |-> "post"])
  /\ UNCHANGED <<untouched, directory, accountUrl, privateKey, traffic>>

\* The operation of createAccount for the call t, from the POST to its return
TaskPost(t) ==
  /\ tasks[t].pc = "post"
  /\ \E f \in {Some(AccountResp(500, BodyEmpty, FALSE, Undefined))}
              \cup {Some(AccountResp(201, BodyEmpty, FALSE, Some(l))) : l \in Locations} :
       LET error == PostError(f, tasks[t].attempt + 1)
           key == SigningKey(Get(tasks[t].keyPair))
           stored == StoreAccount(Get(Get(f).location), Get(tasks[t].keyPair).privateKey)
       IN /\ traffic' = traffic \cup {[by |-> t, signedWith |-> key,
                                       location |-> Get(f).location]}
          /\ IF IsDefined(error)
               THEN /\ TaskMoves(t, [pc |-> "catch", lastError |-> error])
                    /\ UNCHANGED <<accountUrl, privateKey>>
             ELSE /\ TaskMoves(t, [pc |-> "done",
                                   result |-> Fulfilled([accountUrl |-> Get(Get(f).location),
                                                         privateKey |->
                                                           Get(tasks[t].keyPair).privateKey])])
                  /\ accountUrl' = stored.accountUrl
                  /\ privateKey' = stored.privateKey
  /\ UNCHANGED <<untouched, directory>>

\* withRetry of the call t: the catch block. The errors of createAccount carry
\* no response, so the call waits and goes round again.
TaskWait(t) ==
  /\ tasks[t].pc = "catch"
  /\ TaskMoves(t, [pc |-> "loop", attempt |-> tasks[t].attempt + 1,
                   delay |-> Min(tasks[t].delay * retryConfig.backoffFactor,
                                 retryConfig.maxDelay)])
  /\ UNCHANGED <<untouched, directory, accountUrl, privateKey, traffic>>

InitShared ==
  /\ Constructed(GivenShared)
  /\ clients = <<>>
  /\ traffic = {}
  /\ tasks = <<>>

NextShared ==
  \/ StartCreateAccount
  \/ StartSetAccount
  \/ \E t \in DOMAIN tasks : TaskGetDirectory(t)
  \/ \E t \in DOMAIN tasks : TaskGenerateKeyPair(t)
  \/ \E t \in DOMAIN tasks : TaskLoop(t)
  \/ \E t \in DOMAIN tasks : TaskGetNonce(t)
  \/ \E t \in DOMAIN tasks : TaskPost(t)
  \/ \E t \in DOMAIN tasks : TaskWait(t)

\* One client on which createAccount and setAccount are called concurrently.
SpecShared == InitShared /\ [][NextShared]_vars

\* ---------------------------------------- claims on the account pair

\* The stored pair is the one a newAccount request of some call gave: the
\* request was signed with the stored key and answered with the stored URL.
PairCreated ==
  \E p \in traffic : p.location = accountUrl /\ p.signedWith = Get(privateKey)

\* The stored pair is the one some setAccount call was given.
PairRestored ==
  \E t \in DOMAIN tasks :
    /\ tasks[t].call = "setAccount"
    /\ tasks[t].arg = Some([accountUrl |-> Get(accountUrl), privateKey |-> Get(privateKey)])

\* C31: on one client, however concurrent createAccount and setAccount calls
\* interleave at their awaits, accountUrl and privateKey are both unset, or
\* both set and from one call: the key signed the request that was answered
\* with the stored account URL, or the pair is the one given to a setAccount.
C31_AccountPairConsistent ==
  \/ accountUrl = Undefined /\ privateKey = Undefined
  \/ /\ IsDefined(accountUrl)
     /\ IsDefined(privateKey)
     /\ PairCreated \/ PairRestored

\* Three calls in flight at once: the first createAccount is still about to
\* post, a setAccount has stored its pair, and the third call, a createAccount
\* begun last, has already replaced it with its own.
C31_Witness ==
  /\ Len(tasks) = 3
  /\ tasks[1].call = "createAccount"
  /\ tasks[1].pc = "post"
  /\ tasks[2].call = "setAccount"
  /\ tasks[3].call = "createAccount"
  /\ tasks[3].result.kind = "fulfilled"
  /\ privateKey = Some(KeyPair(3).privateKey)
  /\ [by |-> 3, signedWith |-> KeyPair(3).privateKey, location |-> accountUrl] \in traffic

\* ------------------------------ claims on createAccount, continued

\* A step of a createAccount call that changes the account of the instance is
\* the step that fulfils the call.
C32_Steps ==
  (call' = "createAccount" /\ (accountUrl' # accountUrl \/ privateKey' # privateKey))
    => result'.kind = "fulfilled"

\* C32: a createAccount that rejects (directory failure, nonce failure,
\* non-success response, missing Location, retries exhausted) leaves accountUrl
\* and privateKey as they were before the call: no step of the call changes
\* either but the one that fulfils it.
C32_FailureLeavesAccount == [][C32_Steps]_vars

\* A createAccount on a client with a restored account has posted, was
\* refused and has rejected; the restored account is still there.
C32_Witness ==
  /\ call = "createAccount"
  /\ pc = "done"
  /\ result.kind = "rejected"
  /\ Len(posts) > 0
  /\ accountUrl = Some("https://ca/acct/7")
  /\ privateKey = Some([priv |-> 0])

\* ------------------------------------- claims on the directory, continued

\* The request to the directory URL failed: no response, a non-success
\* status, or a body with one of the six members missing.
FetchFailed(f) ==
  \/ ~IsDefined(f)
  \/ ~Ok(Get(f).status)
  \/ ~AllSixPresent(Get(f).data)

\* After a failed request the directory is the one stored before it.
C33_Kept ==
  (IsDefined(lastDirFetch) /\ FetchFailed(Get(lastDirFetch).response))
    => directory = Get(lastDirFetch).before

\* A step that changes the directory stores the endpoints of a complete body
\* that the directory URL has just answered with a success status.
C33_Steps ==
  directory' # directory =>
    /\ IsDefined(lastDirFetch')
    /\ ~FetchFailed(Get(lastDirFetch').response)
    /\ IsDefined(directory')
    /\ \A e \in EndpointNames :
         Get(directory')[e] = Get(Get(lastDirFetch').response).data[e]

\* C33: when getDirectory, called by init or lazily, gets a non-success
\* response or an incomplete body, this.directory keeps the value it had
\* (unset, or the directory resolved before); the directory is only ever
\* replaced by a complete one.
C33_FailedFetchKeepsDirectory == [](C33_Kept) /\ [][C33_Steps]_vars

\* A second init() met a body without its keyChange member: the directory of
\* the first is still stored.
C33_Witness ==
  /\ call = "init"
  /\ pc = "done"
  /\ result.kind = "rejected"
  /\ IsDefined(lastDirFetch)
  /\ Get(lastDirFetch).response = Some([status |-> 200,
                                        data |-> [DirectoryB EXCEPT !.keyChange = Undefined]])
  /\ Get(lastDirFetch).before = Some(StoredDirectory(DirectoryA))
  /\ directory = Some(StoredDirectory(DirectoryA))

\* ---------------------------------------------- claims on the profiles

\* The profiles of the stored directory, none if there is no directory or it
\* has no profiles.
CurrentProfiles ==
  IF IsDefined(directory) /\ IsDefined(Get(directory).meta.profiles)
    THEN {Get(Get(directory).meta.profiles)[i] :
            i \in 1..Len(Get(Get(directory).meta.profiles))}
  ELSE {}

C34_Selected == IsDefined(directoryProfile) => Get(directoryProfile) \in CurrentProfiles

\* A setProfile with a name that is not among the profiles rejects and leaves
\* directoryProfile as it was.
C34_Steps ==
  (call = "setProfile" /\ pc = "body" /\ call' = call /\ Get(arg) \notin CurrentProfiles)
    => (result'.kind = "rejected" /\ directoryProfile' = directoryProfile)

C34_UnknownProfileRefused == [][C34_Steps]_vars

\* C34: in every reachable state of a client, after any sequence of init,
\* setProfile and showProfiles calls, directoryProfile is unset or a member of
\* the profiles of the directory now stored; and a setProfile with a name that
\* is not among the profiles fails and leaves directoryProfile unchanged.
C34_SelectedProfileInvariant == [](C34_Selected) /\ [][C34_Steps]_vars

\* ------------------------------------- claims on the account precondition

\* The running call is one of the three that need an account, on a client on
\* which neither createAccount nor restoreAccount has stored one.
NeedsAccountWithoutOne ==
  /\ call \in {"orderCertificate", "completeDns01Challenges", "finalizeOrder"}
  /\ accountUrl = Undefined
  /\ privateKey = Undefined

\* The running call has made no request, to the directory URL or any other,
\* and no call of the DNS provider.
NothingRequested ==
  /\ lastDirFetch = Undefined
  /\ nonceReqs = <<>>
  /\ posts = <<>>
  /\ authzFetches = <<>>
  /\ dnsCalls = <<>>
  /\ pollFetches = 0
  /\ certFetches = <<>>

\* C35 (src/old/acmeClient.ts): when neither createAccount nor restoreAccount
\* has succeeded on the client, orderCertificate, completeDns01Challenges and
\* finalizeOrder each fail with the account-state-not-set error, having made no
\* network request (directory and nonce requests included) and no call of the
\* DNS provider.
C35_AccountPrecondition ==
  NeedsAccountWithoutOne =>
    /\ NothingRequested
    /\ pc = "done" => result = Rejected(AccountNotSet)

\* The same of completeDns01Challenges and finalizeOrder alone.
C35_TestedFirst ==
  (NeedsAccountWithoutOne /\ call # "orderCertificate") =>
    /\ NothingRequested
    /\ pc = "done"
    /\ result = Rejected(AccountNotSet)

\* orderCertificate without an account, once the directory is stored, fails
\* with the account-state-not-set error before any nonce request.
C35_OrderAfterDirectory ==
  (NeedsAccountWithoutOne /\ call = "orderCertificate") =>
    /\ nonceReqs = <<>>
    /\ posts = <<>>
    /\ (pc = "done" /\ IsDefined(directory)) => result = Rejected(AccountNotSet)

====
